---- MODULE Spec2Model ----
(***************************************************************************)
(* A model of the domain -> CDN attribution pipeline of cmd/resolve and of *)
(* the range-table builder of cmd/cdn-asn-ip-map.                          *)
(*                                                                         *)
(* main() loads the range table, counts the input, creates the output,     *)
(* then runs a producer goroutine, threadCount worker goroutines, a        *)
(* goroutine that closes the results channel, and drains the results       *)
(* itself (the aggregator).                                                *)
(*                                                                         *)
(* Model values                                                            *)
(*   - a binary address (net.IP) is a number 0..3; its text form is the    *)
(*     tuple of its two octets, each 0 or 1 ("a.b"); any other tuple is a  *)
(*     text net.ParseIP rejects;                                           *)
(*   - a line of the input file is the tuple of its characters, 0 being    *)
(*     the comma; line i is either <<i, 0, i>> ("rank,domain", the domain  *)
(*     named by its rank, so the domains of an input are distinct) or      *)
(*     <<i>> (a line without a comma);                                     *)
(*   - the workers run the same code and never use their workerID: the    *)
(*     pool is the number of workers waiting for a job, the bag of jobs    *)
(*     that workers are processing, and the number of workers that have    *)
(*     returned;                                                           *)
(*   - of the log, the progress lines and the lines about a failed write   *)
(*     are modelled; the line about each failed or unattributed domain is  *)
(*     not;                                                                *)
(*   - the builder's files are records: ip2asn-v4.tsv is the sequence of   *)
(*     its entries, the input is its header and its records, an output is  *)
(*     the table written to its path.                                      *)
(***************************************************************************)
EXTENDS Integers, Sequences, FiniteSets, Bags, TLC

\* Number of worker goroutines (50 in the source; a bound of the model).
threadCount == 2

\* Largest number of lines of the input file.
MaxLines == 3

\* The resolver list (23 entries in the source).
publicDNSServers == <<"s1", "s2", "s3">>

\* errors.New("no cdn found for this IP"), the nil error, and the error
\* processDomain wraps around a failed lookup.
noCDN == "noCDN"
nilErr == "nil"
dnsErr == "dns"

\* time.Since(startTime): the durations a resolution of the domain can be
\* measured to take. Resolving domain i takes i units.
Elapsed(domain) == { domain }

\* The file the -cdn-map flag names: ExampleCDN owns 0.0 - 0.1; OtherCDN has a
\* range with an unparseable start and the range 0.1 - 1.0, which overlaps
\* ExampleCDN's at 0.1. No range holds 1.1.
cdnMapFile ==
  [c \in {"ExampleCDN", "OtherCDN"} |->
     IF c = "ExampleCDN"
       THEN << [Start |-> <<0, 0>>, End |-> <<0, 1>>] >>
       ELSE << [Start |-> <<>>, End |-> <<1, 1>>],
               [Start |-> <<0, 1>>, End |-> <<1, 0>>] >>]

\* The nil map the global starts as.
EmptyMap == [c \in {} |-> <<>>]

\* What a decode that fails part-way can leave in the global.
PartialMaps == { EmptyMap, [c \in {"ExampleCDN"} |-> cdnMapFile[c]] }

\* The answers one resolver can give to LookupIP: an error, or a list of
\* addresses (possibly empty).
DNSAnswers == { <<>>, <<1, 3>>, <<3>> }
Responses == { [err |-> TRUE, ips |-> <<>>] } \cup
             { [err |-> FALSE, ips |-> a] : a \in DNSAnswers }

\* Largest number of ranges in a range table that classification is tried on.
MaxRanges == 2

\* Largest number of results the result loop is fed when it is run on its own.
MaxResults == 12

\* Largest number of records after the header in the builder's input.
MaxRows == 2

\* The goroutines that can be inside lookupIPWithRetry at the same time.
Callers == {"w1", "w2"}

VARIABLES
  input,            \* the lines of the input file
  sinkFaulty,       \* whether writes to the output file can fail in this run
  pc,               \* position of the main goroutine
  exitCode,         \* -1 while running, then the process exit code
  cdnIPMap,         \* the global range table
  totalDomains,     \* result of the count pass
  scanPos,          \* lines the producer's scanner has returned
  ppc, pjob,        \* producer goroutine: position, job it is sending
  jobs, jobsClosed,       \* the jobs channel: buffer, closed
  results, resultsClosed, \* the results channel: buffer, closed
  wg,               \* sync.WaitGroup counter
  idle,             \* workers waiting at "for job := range jobs"
  busy,             \* the bag of jobs that workers are processing
  exited,           \* workers that have returned
  cpc,              \* the goroutine that closes results
  processedCount, processingTimes,   \* progress state
  logged,           \* the log: the progress lines and the write-error lines
  wbuf, werr,       \* csv.Writer: buffered records, sticky error
  outFile,          \* contents of the output file
  answered,         \* history: the lookup outcome for each domain
  drained,          \* history: how often each domain's result was received
  serverList,       \* the contents of the global publicDNSServers
  lpc,              \* each caller of lookupIPWithRetry: its position
  servers,          \* each caller's private, shuffled copy of the list
  att,              \* each caller's attempts so far: server and response
  lastErr,          \* each caller's lastErr: the server whose error it holds
  lret,             \* what each caller's call returned
  qip,              \* the address text of the last classification call
  qret,             \* what it returned, if it was a call of getCDNForIP
  qhit,             \* the range and the result, if it was one of isIPInRange
  csvIn,            \* builder: the file the -input flag names
  asnSource,        \* builder: the ip2asn data iptoasn.com serves
  tsvFile,          \* builder: the file ip2asn-v4.tsv on disk
  outDisk,          \* builder: the files the -output flag can name
  outputFile,       \* builder: the value of the -output flag
  bpc,              \* builder: position of main
  bexit,            \* builder: -1 while running, then the exit code
  asnEntries,       \* builder: the global asnEntries
  builtMap,         \* builder: the local cdnIPMap of main
  rowPos,           \* builder: records read after the header
  contacted,        \* builder: whether this process has contacted iptoasn.com
  numWorkers,       \* test runner: the value of the -workers flag
  testCases,        \* test runner: the test cases loaded from the JSON file
  tpc,              \* test runner: position of main
  tsent,            \* test runner: test cases main has sent
  testCaseChan, testCaseClosed,   \* test runner: the channel of test cases
  resultChan, resultClosed,       \* test runner: the channel of results
  twg,              \* test runner: sync.WaitGroup counter
  tidle,            \* test runner: workers waiting at "for tc := range testCases"
  tbusy,            \* test runner: the test cases that workers are executing
  texited,          \* test runner: workers that have returned
  tcpc,             \* test runner: the goroutine that closes resultChan
  successCount, failureCount,     \* test runner: the counters of the result loop
  executed,         \* test runner, history: how often each test case was executed
  cdnRecords,       \* generator: the records of the JSON file
  cdnBuckets,       \* generator: the map of buckets
  origBuckets,      \* generator, history: the buckets before generation
  genCases,         \* generator: the slice testCases
  pairedIdx,        \* generator, history: CDN and indices i, j of each test case
  testCaseMap,      \* generator: the keys of the test cases generated
  domainPairMap,    \* generator: the keys of the domain pairs used
  gcdn,             \* generator: the CDN of the current iteration over the map
  gi,               \* generator: the index i into the current bucket
  usedRecords,      \* generator: the indices used in the current bucket
  gdone,            \* generator: the CDNs the iteration over the map has visited
  gpc,              \* generator: position of main
  latestCollectionInfo,  \* crawler: the global, "nil" until it is fetched
  cdxResponse,      \* crawler: the answer of the index server to the current call
  crawlRet,         \* crawler: what getLatestCommonCrawlIndex returned
  kpc               \* crawler: position of the call

chanVars == <<jobs, jobsClosed, results, resultsClosed, wg>>
workerVars == <<idle, busy, exited>>
sinkVars == <<wbuf, werr, outFile>>
progressVars == <<processedCount, processingTimes, logged>>
histVars == <<answered, drained>>
pipeVars == <<input, sinkFaulty, pc, exitCode, cdnIPMap, totalDomains, scanPos, ppc, pjob,
              chanVars, workerVars, cpc, progressVars, sinkVars, histVars>>
lookupVars == <<serverList, lpc, servers, att, lastErr, lret>>
classVars == <<qip, qret, qhit>>
buildVars == <<csvIn, asnSource, tsvFile, outDisk, outputFile, bpc, bexit, asnEntries,
               builtMap, rowPos, contacted>>
runVars == <<numWorkers, testCases, tpc, tsent, testCaseChan, testCaseClosed, resultChan,
             resultClosed, twg, tidle, tbusy, texited, tcpc, successCount, failureCount,
             executed>>
genVars == <<cdnRecords, cdnBuckets, origBuckets, genCases, pairedIdx, testCaseMap, domainPairMap,
             gcdn, gi, usedRecords, gdone, gpc>>
crawlVars == <<latestCollectionInfo, cdxResponse, crawlRet, kpc>>
toolVars == <<runVars, genVars, crawlVars>>
unitVars == <<lookupVars, classVars, buildVars, toolVars>>
vars == <<input, sinkFaulty, pc, exitCode, cdnIPMap, totalDomains, scanPos, ppc, pjob,
          chanVars, workerVars, cpc, progressVars, sinkVars, histVars, unitVars>>

-----------------------------------------------------------------------------
(* Addresses and classification *)

ValidText == [1..2 -> {0, 1}]

\* net.IP.String(): the text of a binary address.
String(n) == << n \div 2, n % 2 >>

\* net.ParseIP: the bytes of a well-formed text, nil (the empty slice) otherwise.
ParseIP(t) == IF t \in ValidText THEN t ELSE <<>>

\* bytes.Compare: lexicographic comparison of two byte slices.
RECURSIVE bytesCompare(_, _)
bytesCompare(a, b) ==
  IF a = <<>> /\ b = <<>> THEN 0
  ELSE IF a = <<>> THEN -1
  ELSE IF b = <<>> THEN 1
  ELSE IF Head(a) < Head(b) THEN -1
  ELSE IF Head(a) > Head(b) THEN 1
  ELSE bytesCompare(Tail(a), Tail(b))

\* An end that is not part of the range ("< 0" for "<= 0").
isIPInRange_ExclusiveEnd(ip, start, end) ==
  LET ipParsed == ParseIP(ip)
      startParsed == ParseIP(start)
      endParsed == ParseIP(end)
  IN IF ipParsed = <<>> \/ startParsed = <<>> \/ endParsed = <<>>
       THEN FALSE
       ELSE bytesCompare(ipParsed, startParsed) >= 0 /\ bytesCompare(ipParsed, endParsed) < 0

\* No test for nil: an unparseable start compares below every address.
isIPInRange_NoNilTest(ip, start, end) ==
  LET ipParsed == ParseIP(ip)
      startParsed == ParseIP(start)
      endParsed == ParseIP(end)
  IN bytesCompare(ipParsed, startParsed) >= 0 /\ bytesCompare(ipParsed, endParsed) <= 0

isIPInRange(ip, start, end) ==
  LET ipParsed == ParseIP(ip)
      startParsed == ParseIP(start)
      endParsed == ParseIP(end)
  IN IF ipParsed = <<>> \/ startParsed = <<>> \/ endParsed = <<>>
       THEN FALSE
       ELSE bytesCompare(ipParsed, startParsed) >= 0 /\ bytesCompare(ipParsed, endParsed) <= 0

\* The CDNs of table m with a range that holds ip.
MatchingCDNs(m, ip) ==
  { c \in DOMAIN m : \E i \in 1..Len(m[c]) : isIPInRange(ip, m[c][i].Start, m[c][i].End) }

\* A scan that looks at the first range of each CDN only.
getCDNForIP_FirstRangeOnly(m, ip) ==
  LET first == { c \in DOMAIN m : Len(m[c]) > 0 /\ isIPInRange(ip, m[c][1].Start, m[c][1].End) }
  IN IF first = {}
       THEN { [cdn |-> "unknown", err |-> noCDN] }
       ELSE { [cdn |-> c, err |-> nilErr] : c \in first }

\* getCDNForIP ranges over a Go map, whose iteration order is not fixed: the
\* first match can be any CDN that matches. The set of possible returns.
getCDNForIP(m, ip) ==
  IF MatchingCDNs(m, ip) = {}
    THEN { [cdn |-> "unknown", err |-> noCDN] }
    ELSE { [cdn |-> c, err |-> nilErr] : c \in MatchingCDNs(m, ip) }

\* The address texts tried: the well-formed ones and "0", which net.ParseIP
\* rejects (it has one octet).
Texts == ValidText \cup { <<0>> }

\* The ranges a table can hold: "0.0", "0.1", "1.0" or "0" as start and as end.
Ranges == { [Start |-> a, End |-> b] : a \in Texts \ { <<1, 1>> }, b \in Texts \ { <<1, 1>> } }

RECURSIVE SeqsOfLen(_, _)
SeqsOfLen(S, n) == IF n = 0 THEN { <<>> }
                   ELSE { Append(q, x) : q \in SeqsOfLen(S, n - 1), x \in S }

\* The range tables tried: ExampleCDN and OtherCDN with at most MaxRanges
\* ranges between them.
Tables ==
  UNION { UNION { { [c \in {"ExampleCDN", "OtherCDN"} |-> IF c = "ExampleCDN" THEN x ELSE y]
                    : x \in SeqsOfLen(Ranges, a), y \in SeqsOfLen(Ranges, b) }
                  : b \in 0..(MaxRanges - a) }
          : a \in 0..MaxRanges }

NoResult == [cdn |-> "", err |-> ""]
NoHit == [cdn |-> "", idx |-> 0, hit |-> FALSE]

-----------------------------------------------------------------------------
(* DNS lookup with retry *)

RECURSIVE Perms(_)
Perms(S) == IF S = {} THEN { <<>> }
            ELSE UNION { { <<x>> \o p : p \in Perms(S \ {x}) } : x \in S }

Range(s) == { s[i] : i \in 1..Len(s) }

\* rand.Shuffle of a copy of the list: any order of its elements.
Shuffles(list) == { [i \in 1..Len(list) |-> list[p[i]]] : p \in Perms(1..Len(list)) }

\* The loop of lookupIPWithRetry from attempt i on. resp maps each server to
\* its response; lastErr names the server whose error was recorded last.
RECURSIVE lookupFrom(_, _, _, _)
lookupFrom(order, resp, i, last) ==
  IF i > Len(order)
    THEN [ok |-> FALSE, ips |-> <<>>, lastErr |-> last, tried |-> order]
    ELSE IF resp[order[i]].err
      THEN lookupFrom(order, resp, i + 1, order[i])
      ELSE IF Len(resp[order[i]].ips) > 0
        THEN [ok |-> TRUE, ips |-> resp[order[i]].ips, lastErr |-> last,
              tried |-> SubSeq(order, 1, i)]
        ELSE lookupFrom(order, resp, i + 1, last)

lookupIPWithRetry(order, resp) == lookupFrom(order, resp, 1, "none")

\* Every return of lookupIPWithRetry, over the shuffles and the responses.
LookupOutcomes ==
  { lookupIPWithRetry(s, r) : s \in Shuffles(publicDNSServers),
                              r \in [Range(publicDNSServers) -> Responses] }

\* What the callers see of a lookup: failure, or the list of addresses.
LookupAnswers == { [ok |-> o.ok, ips |-> o.ips] : o \in LookupOutcomes }

-----------------------------------------------------------------------------
(* processDomain *)

EmptyDump == [CDN |-> "", DomainSLD |-> 0, IP |-> <<>>]

\* A processDomain that uses the last address of the answer, not the first.
processDomain_LastAddress(m, domain, a) ==
  IF ~a.ok THEN { [resources |-> EmptyDump, err |-> dnsErr] }
  ELSE IF Len(a.ips) = 0 THEN { [resources |-> EmptyDump, err |-> dnsErr] }
  ELSE LET ip == String(a.ips[Len(a.ips)]) IN
    { IF c.err # nilErr
        THEN [resources |-> EmptyDump, err |-> c.err]
        ELSE [resources |-> [CDN |-> c.cdn, DomainSLD |-> domain, IP |-> ip], err |-> nilErr]
      : c \in getCDNForIP(m, ip) }

\* The possible returns (CSVDump, error) of processDomain(domain) when the
\* lookup returned a.
processDomain(m, domain, a) ==
  IF ~a.ok THEN { [resources |-> EmptyDump, err |-> dnsErr] }
  ELSE IF Len(a.ips) = 0 THEN { [resources |-> EmptyDump, err |-> dnsErr] }
  ELSE LET ip == String(a.ips[1]) IN
    { IF c.err # nilErr
        THEN [resources |-> EmptyDump, err |-> c.err]
        ELSE [resources |-> [CDN |-> c.cdn, DomainSLD |-> domain, IP |-> ip], err |-> nilErr]
      : c \in getCDNForIP(m, ip) }

-----------------------------------------------------------------------------
(* The pipeline of main() *)

\* The header record and the record of a result.
Header == <<"cdn", "domain_sld", "ip_addr">>
Row(r) == << r.resources.CDN, r.resources.DomainSLD, r.resources.IP >>

\* What a failed write can leave at the end of the file: part of a record.
Torn == <<"torn">>

NoJob == [domain |-> 0, line |-> <<>>]
NoAnswer == [asked |-> FALSE, ok |-> FALSE, ips |-> <<>>]

\* The character "," of a line; every other character is a positive number.
Comma == 0

\* The input files: line i is "i,i" (rank i, domain i) or "i" (no comma).
Inputs ==
  UNION { { [i \in 1..n |-> IF i \in V THEN <<i, Comma, i>> ELSE <<i>>] : V \in SUBSET (1..n) }
          : n \in 0..MaxLines }

\* strings.Split(line, ","): the fields between the commas; a field of one
\* character is that character, an empty field is Comma.
RECURSIVE Split(_)
Split(line) ==
  IF \A k \in 1..Len(line) : line[k] # Comma
    THEN << IF line = <<>> THEN Comma ELSE line[1] >>
    ELSE LET c == CHOOSE k \in 1..Len(line) :
                    line[k] = Comma /\ \A h \in 1..(k - 1) : line[h] # Comma
         IN << IF c = 1 THEN Comma ELSE line[1] >> \o Split(SubSeq(line, c + 1, Len(line)))

\* A loop that starts at 0: one worker too many.
poolSize_FromZero == Cardinality(0..threadCount)

\* The number of goroutines "for w := 1; w <= threadCount; w++" starts.
poolSize == Cardinality(1..threadCount)

\* make(chan Job, threadCount), make(chan Result, threadCount)
jobsCap == threadCount
resultsCap == threadCount

\* No call of lookupIPWithRetry is in progress.
NoReturn == [ok |-> FALSE, ips |-> <<>>, err |-> "none"]
InitLookup ==
  /\ serverList = publicDNSServers
  /\ lpc = [c \in Callers |-> "idle"]
  /\ servers = [c \in Callers |-> <<>>]
  /\ att = [c \in Callers |-> <<>>]
  /\ lastErr = [c \in Callers |-> "none"]
  /\ lret = [c \in Callers |-> NoReturn]

\* No classification has been asked for.
InitClassify ==
  /\ qip = <<>>
  /\ qret = NoResult
  /\ qhit = NoHit

\* The builder's files and flags when it is not run: no ip2asn file and no
\* output on disk.
Paths == { "p1", "p2" }
NoFile == [exists |-> FALSE, entries |-> <<>>]
NoOutput == [exists |-> FALSE, table |-> EmptyMap]
InitBuilder ==
  /\ csvIn = [header |-> "none", rows |-> <<>>]
  /\ asnSource = <<>>
  /\ tsvFile = NoFile
  /\ outDisk = [p \in Paths |-> NoOutput]
  /\ outputFile = "p1"
  /\ bpc = "none"
  /\ bexit = -1
  /\ asnEntries = <<>>
  /\ builtMap = EmptyMap
  /\ rowPos = 0
  /\ contacted = FALSE

\* The test runner, the test-case generator and the crawler when they are
\* not run.
InitRunner ==
  /\ numWorkers = 0
  /\ testCases = <<>>
  /\ tpc = "none"
  /\ tsent = 0
  /\ testCaseChan = <<>>
  /\ testCaseClosed = FALSE
  /\ resultChan = <<>>
  /\ resultClosed = FALSE
  /\ twg = 0
  /\ tidle = 0
  /\ tbusy = {}
  /\ texited = 0
  /\ tcpc = "none"
  /\ successCount = 0
  /\ failureCount = 0
  /\ executed = <<>>
InitGenerator ==
  /\ cdnRecords = <<>>
  /\ cdnBuckets = EmptyMap
  /\ origBuckets = EmptyMap
  /\ genCases = <<>>
  /\ pairedIdx = <<>>
  /\ testCaseMap = {}
  /\ domainPairMap = {}
  /\ gcdn = "none"
  /\ gi = 0
  /\ usedRecords = {}
  /\ gdone = {}
  /\ gpc = "none"
InitCrawler ==
  /\ latestCollectionInfo = "nil"
  /\ cdxResponse = [fetch |-> "none", lines |-> <<>>]
  /\ crawlRet = [returned |-> FALSE, err |-> "none", index |-> <<>>]
  /\ kpc = "none"
InitTools == InitRunner /\ InitGenerator /\ InitCrawler

\* The variables of main() at its start, the input and the table apart.
InitMain ==
  /\ pc = "load"
  /\ exitCode = -1
  /\ totalDomains = 0
  /\ scanPos = 0
  /\ ppc = "none"
  /\ pjob = NoJob
  /\ jobs = <<>>
  /\ jobsClosed = FALSE
  /\ results = <<>>
  /\ resultsClosed = FALSE
  /\ wg = 0
  /\ idle = 0
  /\ busy = EmptyBag
  /\ exited = 0
  /\ cpc = "none"
  /\ processedCount = 0
  /\ processingTimes = <<>>
  /\ logged = <<>>
  /\ wbuf = <<>>
  /\ werr = FALSE
  /\ outFile = <<>>
  /\ answered = [d \in 1..MaxLines |-> NoAnswer]
  /\ drained = [d \in 1..MaxLines |-> 0]

\* The state at the start of main(), the sink apart.
InitRun ==
  /\ input \in Inputs
  /\ cdnIPMap = EmptyMap
  /\ InitMain
  /\ InitLookup
  /\ InitClassify
  /\ InitBuilder
  /\ InitTools

\* A run in which every write to the output file succeeds.
Init ==
  /\ sinkFaulty = FALSE
  /\ InitRun

\* A run in which a write to the output file may fail.
InitSink ==
  /\ sinkFaulty \in BOOLEAN
  /\ InitRun

\* log.Fatal: the process exits with code 1.
Fatal ==
  /\ pc' = "fatal"
  /\ exitCode' = 1

\* A main that ignores the error of loadCDNIPMap and goes on.
LoadCDNIPMap_ErrorIgnored ==
  /\ pc = "load"
  /\ cdnIPMap' \in PartialMaps \cup { cdnMapFile }
  /\ pc' = "open"
  /\ UNCHANGED <<unitVars, input, sinkFaulty, exitCode, totalDomains, scanPos, ppc, pjob, chanVars,
                 workerVars, cpc, progressVars, sinkVars, histVars>>

\* loadCDNIPMap and its call in main.
LoadCDNIPMap ==
  /\ pc = "load"
  /\ \/ /\ cdnIPMap' = cdnMapFile
        /\ pc' = "open"
        /\ UNCHANGED exitCode
     \/ /\ cdnIPMap' \in PartialMaps
        /\ Fatal
  /\ UNCHANGED <<unitVars, input, sinkFaulty, totalDomains, scanPos, ppc, pjob, chanVars, workerVars,
                 cpc, progressVars, sinkVars, histVars>>

\* os.Open(*inputFile)
OpenInput ==
  /\ pc = "open"
  /\ \/ /\ pc' = "count"
        /\ UNCHANGED exitCode
     \/ Fatal
  /\ UNCHANGED <<unitVars, input, sinkFaulty, cdnIPMap, totalDomains, scanPos, ppc, pjob, chanVars,
                 workerVars, cpc, progressVars, sinkVars, histVars>>

\* A count pass that takes the first line for a header and leaves it out.
CountDomains_SkipsFirstLine ==
  /\ pc = "count"
  /\ totalDomains' = IF Len(input) = 0 THEN 0 ELSE Len(input) - 1
  /\ scanPos' = 0
  /\ processedCount' = 0
  /\ processingTimes' = <<>>
  /\ UNCHANGED logged
  /\ pc' = "create"
  /\ UNCHANGED <<unitVars, input, sinkFaulty, exitCode, cdnIPMap, ppc, pjob, chanVars, workerVars,
                 cpc, sinkVars, histVars>>

\* The count pass, the rewind and the progress variables.
CountDomains ==
  /\ pc = "count"
  /\ totalDomains' = Len(input)
  /\ scanPos' = 0
  /\ processedCount' = 0
  /\ processingTimes' = <<>>
  /\ UNCHANGED logged
  /\ pc' = "create"
  /\ UNCHANGED <<unitVars, input, sinkFaulty, exitCode, cdnIPMap, ppc, pjob, chanVars, workerVars,
                 cpc, sinkVars, histVars>>

\* os.Create(*outputFile) and csv.NewWriter
CreateOutput ==
  /\ pc = "create"
  /\ \/ /\ outFile' = <<>>
        /\ wbuf' = <<>>
        /\ werr' = FALSE
        /\ pc' = "header"
        /\ UNCHANGED exitCode
     \/ /\ Fatal
        /\ UNCHANGED sinkVars
  /\ UNCHANGED <<unitVars, input, sinkFaulty, cdnIPMap, totalDomains, scanPos, ppc, pjob, chanVars,
                 workerVars, cpc, progressVars, histVars>>

\* csv.Writer.Write: the record goes to the buffer; with the sticky error of
\* an earlier failed flush set, Write returns that error and buffers nothing.
csvWrite(buf, err, record) == IF err THEN buf ELSE Append(buf, record)

\* csv.Writer.Flush: the possible (buffer, error, file) after it. The buffer
\* goes to the file whole; where the sink can fail, any part of it may.
csvFlush(buf, err, file, faulty) ==
  IF err \/ buf = <<>>
    THEN { [wbuf |-> buf, werr |-> err, outFile |-> file] }
    ELSE { [wbuf |-> <<>>, werr |-> FALSE, outFile |-> file \o buf] } \cup
         IF faulty
           THEN { [wbuf |-> SubSeq(buf, k + 1, Len(buf)), werr |-> TRUE,
                   outFile |-> file \o SubSeq(buf, 1, k) \o t]
                  : k \in 0..(Len(buf) - 1), t \in { <<>>, <<Torn>> } }
           ELSE {}

\* A main that goes on to the pool without writing the header.
WriteHeader_Omitted ==
  /\ pc = "header"
  /\ pc' = "workers"
  /\ UNCHANGED <<unitVars, input, sinkFaulty, exitCode, cdnIPMap, totalDomains, scanPos, ppc, pjob,
                 chanVars, workerVars, cpc, progressVars, sinkVars, histVars>>

\* writer.Write(header): the buffer is empty, so the write cannot fail.
WriteHeader ==
  /\ pc = "header"
  /\ wbuf' = csvWrite(wbuf, werr, Header)
  /\ pc' = "workers"
  /\ UNCHANGED <<unitVars, input, sinkFaulty, exitCode, cdnIPMap, totalDomains, scanPos, ppc, pjob,
                 chanVars, workerVars, cpc, progressVars, werr, outFile, histVars>>

\* The loop that starts the pool: wg.Add(1) and go func(workerID) for each.
StartWorkers ==
  /\ pc = "workers"
  /\ idle' = poolSize
  /\ wg' = poolSize
  /\ pc' = "producer"
  /\ UNCHANGED <<unitVars, input, sinkFaulty, exitCode, cdnIPMap, totalDomains, scanPos, ppc, pjob,
                 jobs, jobsClosed, results, resultsClosed, busy, exited, cpc,
                 progressVars, sinkVars, histVars>>

\* go func() { for scanner.Scan() ... }
StartProducer ==
  /\ pc = "producer"
  /\ ppc' = "scan"
  /\ pc' = "closer"
  /\ UNCHANGED <<unitVars, input, sinkFaulty, exitCode, cdnIPMap, totalDomains, scanPos, pjob,
                 chanVars, workerVars, cpc, progressVars, sinkVars, histVars>>

\* go func() { wg.Wait(); close(results) }
StartCloser ==
  /\ pc = "closer"
  /\ cpc' = "wait"
  /\ pc' = "drain"
  /\ UNCHANGED <<unitVars, input, sinkFaulty, exitCode, cdnIPMap, totalDomains, scanPos, ppc, pjob,
                 chanVars, workerVars, progressVars, sinkVars, histVars>>

-----------------------------------------------------------------------------
(* The producer goroutine *)

\* scanner.Scan() returned a line: split it; a line with fewer than two
\* fields is skipped with a warning, any other becomes the job to send.
ProducerScan ==
  /\ ppc = "scan"
  /\ scanPos < Len(input)
  /\ scanPos' = scanPos + 1
  /\ LET line == input[scanPos + 1]
         parts == Split(line)
     IN IF Len(parts) < 2
          THEN UNCHANGED <<ppc, pjob>>
          ELSE /\ pjob' = [domain |-> parts[2], line |-> line]
               /\ ppc' = "send"
  /\ UNCHANGED <<unitVars, input, sinkFaulty, pc, exitCode, cdnIPMap, totalDomains, chanVars,
                 workerVars, cpc, progressVars, sinkVars, histVars>>

\* A send that does not block on a full buffer (an unbounded queue).
ProducerSend_Unbounded ==
  /\ ppc = "send"
  /\ ~jobsClosed
  /\ jobs' = Append(jobs, pjob)
  /\ pjob' = NoJob
  /\ ppc' = "scan"
  /\ UNCHANGED <<unitVars, input, sinkFaulty, pc, exitCode, cdnIPMap, totalDomains, scanPos,
                 jobsClosed, results, resultsClosed, wg, workerVars, cpc,
                 progressVars, sinkVars, histVars>>

\* jobs <- Job{...}: blocks while the buffer is full.
ProducerSend ==
  /\ ppc = "send"
  /\ ~jobsClosed
  /\ Len(jobs) < jobsCap
  /\ jobs' = Append(jobs, pjob)
  /\ pjob' = NoJob
  /\ ppc' = "scan"
  /\ UNCHANGED <<unitVars, input, sinkFaulty, pc, exitCode, cdnIPMap, totalDomains, scanPos,
                 jobsClosed, results, resultsClosed, wg, workerVars, cpc,
                 progressVars, sinkVars, histVars>>

\* scanner.Scan() returned false: close(jobs).
ProducerClose ==
  /\ ppc = "scan"
  /\ scanPos = Len(input)
  /\ jobsClosed' = TRUE
  /\ ppc' = "done"
  /\ UNCHANGED <<unitVars, input, sinkFaulty, pc, exitCode, cdnIPMap, totalDomains, scanPos, pjob,
                 jobs, results, resultsClosed, wg, workerVars, cpc, progressVars,
                 sinkVars, histVars>>

-----------------------------------------------------------------------------
(* The workers *)

\* A receive that leaves the job in the buffer.
WorkerRecv_NoDequeue ==
  /\ idle > 0
  /\ jobs # <<>>
  /\ idle' = idle - 1
  /\ busy' = busy (+) SetToBag({ Head(jobs) })
  /\ UNCHANGED <<unitVars, input, sinkFaulty, pc, exitCode, cdnIPMap, totalDomains, scanPos, ppc,
                 pjob, jobs, jobsClosed, results, resultsClosed, wg, exited, cpc,
                 progressVars, sinkVars, histVars>>

\* for job := range jobs: a waiting worker receives a job.
WorkerRecv ==
  /\ idle > 0
  /\ jobs # <<>>
  /\ idle' = idle - 1
  /\ busy' = busy (+) SetToBag({ Head(jobs) })
  /\ jobs' = Tail(jobs)
  /\ UNCHANGED <<unitVars, input, sinkFaulty, pc, exitCode, cdnIPMap, totalDomains, scanPos, ppc,
                 pjob, jobsClosed, results, resultsClosed, wg, exited, cpc,
                 progressVars, sinkVars, histVars>>

\* A worker that counts the domain itself when its resolution failed.
WorkerProcess_Counts ==
  /\ ~resultsClosed
  /\ Len(results) < resultsCap
  /\ \E job \in BagToSet(busy) :
       /\ \E a \in LookupAnswers, d \in Elapsed(job.domain) :
            \E r \in processDomain(cdnIPMap, job.domain, a) :
              /\ results' = Append(results, [resources |-> r.resources, err |-> r.err,
                                             domain |-> job.domain, duration |-> d])
              /\ answered' = [answered EXCEPT ![job.domain] =
                                [asked |-> TRUE, ok |-> a.ok, ips |-> a.ips]]
              /\ processedCount' = IF r.err = dnsErr THEN processedCount + 1
                                                     ELSE processedCount
       /\ busy' = busy (-) SetToBag({ job })
  /\ idle' = idle + 1
  /\ UNCHANGED <<unitVars, input, sinkFaulty, pc, exitCode, cdnIPMap, totalDomains, scanPos, ppc,
                 pjob, jobs, jobsClosed, resultsClosed, wg, exited, cpc,
                 processingTimes, logged, sinkVars, drained>>

\* The loop body of a worker that holds a job: processDomain(job.domain), the
\* duration measured around it, and results <- Result{...}, which blocks
\* while the buffer is full; the worker then waits for the next job. The
\* outcome of the resolution is drawn when the result is sent.
WorkerProcess ==
  /\ ~resultsClosed
  /\ Len(results) < resultsCap
  /\ \E job \in BagToSet(busy) :
       /\ \E a \in LookupAnswers, d \in Elapsed(job.domain) :
            \E r \in processDomain(cdnIPMap, job.domain, a) :
              /\ results' = Append(results, [resources |-> r.resources, err |-> r.err,
                                             domain |-> job.domain, duration |-> d])
              /\ answered' = [answered EXCEPT ![job.domain] =
                                [asked |-> TRUE, ok |-> a.ok, ips |-> a.ips]]
       /\ busy' = busy (-) SetToBag({ job })
  /\ idle' = idle + 1
  /\ UNCHANGED <<unitVars, input, sinkFaulty, pc, exitCode, cdnIPMap, totalDomains, scanPos, ppc,
                 pjob, jobs, jobsClosed, resultsClosed, wg, exited, cpc,
                 progressVars, sinkVars, drained>>

\* A worker that leaves as soon as jobs is closed, jobs still buffered or not.
WorkerExit_OnClose ==
  /\ idle > 0
  /\ jobsClosed
  /\ idle' = idle - 1
  /\ exited' = exited + 1
  /\ wg' = wg - 1
  /\ UNCHANGED <<unitVars, input, sinkFaulty, pc, exitCode, cdnIPMap, totalDomains, scanPos, ppc,
                 pjob, jobs, jobsClosed, results, resultsClosed, busy, cpc,
                 progressVars, sinkVars, histVars>>

\* A worker that returns without wg.Done().
WorkerExit_NoDone ==
  /\ idle > 0
  /\ jobs = <<>>
  /\ jobsClosed
  /\ idle' = idle - 1
  /\ exited' = exited + 1
  /\ UNCHANGED <<unitVars, input, sinkFaulty, pc, exitCode, cdnIPMap, totalDomains, scanPos, ppc,
                 pjob, jobs, jobsClosed, results, resultsClosed, wg, busy, cpc,
                 progressVars, sinkVars, histVars>>

\* The range loop of a waiting worker ends on the closed, empty channel;
\* defer wg.Done().
WorkerExit ==
  /\ idle > 0
  /\ jobs = <<>>
  /\ jobsClosed
  /\ idle' = idle - 1
  /\ exited' = exited + 1
  /\ wg' = wg - 1
  /\ UNCHANGED <<unitVars, input, sinkFaulty, pc, exitCode, cdnIPMap, totalDomains, scanPos, ppc,
                 pjob, jobs, jobsClosed, results, resultsClosed, busy, cpc,
                 progressVars, sinkVars, histVars>>

-----------------------------------------------------------------------------
(* The goroutine that closes results *)

\* A closer that does not wait for the workers.
CloseResults_NoWait ==
  /\ cpc = "wait"
  /\ resultsClosed' = TRUE
  /\ cpc' = "done"
  /\ UNCHANGED <<unitVars, input, sinkFaulty, pc, exitCode, cdnIPMap, totalDomains, scanPos, ppc,
                 pjob, jobs, jobsClosed, results, wg, workerVars, progressVars,
                 sinkVars, histVars>>

\* wg.Wait() returns when the counter is zero; close(results).
CloseResults ==
  /\ cpc = "wait"
  /\ wg = 0
  /\ resultsClosed' = TRUE
  /\ cpc' = "done"
  /\ UNCHANGED <<unitVars, input, sinkFaulty, pc, exitCode, cdnIPMap, totalDomains, scanPos, ppc,
                 pjob, jobs, jobsClosed, results, wg, workerVars, progressVars,
                 sinkVars, histVars>>

-----------------------------------------------------------------------------
(* The aggregator: the result loop of main() *)

\* "Log progress every 10 domains": the modulus of the test at line 370.
progressEvery == 10

RECURSIVE SumSeq(_)
SumSeq(q) == IF q = <<>> THEN 0 ELSE Head(q) + SumSeq(Tail(q))

\* The progress block: nothing unless processedCount is a multiple of 10;
\* else one line with the count, the total, the remaining count (not below
\* 0) and the ETA, the average of all processing times (integer division of
\* durations) times the remaining count.
ProgressLog(count, total, times) ==
  IF count % progressEvery # 0 THEN <<>>
  ELSE LET remaining == IF total - count < 0 THEN 0 ELSE total - count
           avgProcessingTime == SumSeq(times) \div Len(times)
       IN << [kind |-> "progress", domain |-> 0, processed |-> count, total |-> total,
              remaining |-> remaining, eta |-> avgProcessingTime * remaining] >>

\* "Error writing record to CSV", logged when writer.Write returns an error:
\* that is when the writer holds the error of an earlier failed flush.
WriteErrorLog(err, domain) ==
  IF err
    THEN << [kind |-> "writeError", domain |-> domain, processed |-> 0, total |-> 0,
             remaining |-> 0, eta |-> 0] >>
    ELSE <<>>

\* A result loop that a result with an error ends (break for continue).
AggRecv_BreakOnError ==
  /\ pc = "drain"
  /\ results # <<>>
  /\ results' = Tail(results)
  /\ drained' = [drained EXCEPT ![Head(results).domain] = @ + 1]
  /\ IF Head(results).err # nilErr
       THEN /\ processedCount' = processedCount + 1
            /\ pc' = "done"
            /\ exitCode' = 0
            /\ UNCHANGED <<processingTimes, logged, sinkVars>>
       ELSE /\ \E f \in csvFlush(csvWrite(wbuf, werr, Row(Head(results))), werr, outFile,
                                sinkFaulty) :
                 /\ wbuf' = f.wbuf
                 /\ werr' = f.werr
                 /\ outFile' = f.outFile
            /\ processingTimes' = Append(processingTimes, Head(results).duration)
            /\ logged' = logged \o WriteErrorLog(werr, Head(results).domain)
                                \o ProgressLog(processedCount, totalDomains,
                                               Append(processingTimes, Head(results).duration))
            /\ UNCHANGED <<pc, exitCode, processedCount>>
  /\ UNCHANGED <<unitVars, input, sinkFaulty, cdnIPMap, totalDomains, scanPos, ppc, pjob,
                 jobs, jobsClosed, resultsClosed, wg, workerVars, cpc, answered>>

\* One iteration of "for result := range results". A result with an error is
\* logged and counted, and the loop continues. Any other result is written
\* (writer.Write, an error of which is logged), the writer is flushed (an
\* error of which is not looked at), the duration joins processingTimes, and
\* the progress block runs.
AggRecv ==
  /\ pc = "drain"
  /\ results # <<>>
  /\ results' = Tail(results)
  /\ drained' = [drained EXCEPT ![Head(results).domain] = @ + 1]
  /\ IF Head(results).err # nilErr
       THEN /\ processedCount' = processedCount + 1
            /\ UNCHANGED <<processingTimes, logged, sinkVars>>
       ELSE /\ \E f \in csvFlush(csvWrite(wbuf, werr, Row(Head(results))), werr, outFile,
                                sinkFaulty) :
                 /\ wbuf' = f.wbuf
                 /\ werr' = f.werr
                 /\ outFile' = f.outFile
            /\ processingTimes' = Append(processingTimes, Head(results).duration)
            /\ logged' = logged \o WriteErrorLog(werr, Head(results).domain)
                                \o ProgressLog(processedCount, totalDomains,
                                               Append(processingTimes, Head(results).duration))
            /\ UNCHANGED processedCount
  /\ UNCHANGED <<unitVars, input, sinkFaulty, pc, exitCode, cdnIPMap, totalDomains, scanPos, ppc,
                 pjob, jobs, jobsClosed, resultsClosed, wg, workerVars, cpc, answered>>

\* The loop ends on the closed, empty channel; main returns: the deferred
\* writer.Flush() runs and the process exits with code 0.
AggEnd ==
  /\ pc = "drain"
  /\ results = <<>>
  /\ resultsClosed
  /\ \E f \in csvFlush(wbuf, werr, outFile, sinkFaulty) :
       /\ wbuf' = f.wbuf
       /\ werr' = f.werr
       /\ outFile' = f.outFile
  /\ pc' = "done"
  /\ exitCode' = 0
  /\ UNCHANGED <<unitVars, input, sinkFaulty, cdnIPMap, totalDomains, scanPos, ppc, pjob, chanVars,
                 workerVars, cpc, progressVars, histVars>>

-----------------------------------------------------------------------------
(* lookupIPWithRetry, one step at a time, for concurrent callers *)

\* A copy filled with random picks from the list, not a shuffle of it.
LookupCall_RandomPicks(c) ==
  /\ lpc[c] = "idle"
  /\ \E s \in [1..Len(serverList) -> Range(serverList)] : servers' = [servers EXCEPT ![c] = s]
  /\ att' = [att EXCEPT ![c] = <<>>]
  /\ lastErr' = [lastErr EXCEPT ![c] = "none"]
  /\ lret' = [lret EXCEPT ![c] = NoReturn]
  /\ lpc' = [lpc EXCEPT ![c] = "loop"]
  /\ UNCHANGED <<pipeVars, classVars, buildVars, toolVars, serverList>>

\* servers := publicDNSServers, shuffled: the slice shares the global's array.
LookupCall_InPlace(c) ==
  /\ lpc[c] = "idle"
  /\ \E s \in Shuffles(serverList) :
       /\ serverList' = s
       /\ servers' = [servers EXCEPT ![c] = s]
  /\ att' = [att EXCEPT ![c] = <<>>]
  /\ lastErr' = [lastErr EXCEPT ![c] = "none"]
  /\ lret' = [lret EXCEPT ![c] = NoReturn]
  /\ lpc' = [lpc EXCEPT ![c] = "loop"]
  /\ UNCHANGED <<pipeVars, classVars, buildVars, toolVars>>

\* make, copy and rand.Shuffle: the caller's private copy of the list, in
\* any order.
LookupCall(c) ==
  /\ lpc[c] = "idle"
  /\ \E s \in Shuffles(serverList) : servers' = [servers EXCEPT ![c] = s]
  /\ att' = [att EXCEPT ![c] = <<>>]
  /\ lastErr' = [lastErr EXCEPT ![c] = "none"]
  /\ lret' = [lret EXCEPT ![c] = NoReturn]
  /\ lpc' = [lpc EXCEPT ![c] = "loop"]
  /\ UNCHANGED <<pipeVars, classVars, buildVars, toolVars, serverList>>

\* A loop that returns whenever err is nil, without the test len(ips) > 0.
LookupAttempt_NoLengthTest(c) ==
  /\ lpc[c] = "loop"
  /\ Len(att[c]) < Len(servers[c])
  /\ LET server == servers[c][Len(att[c]) + 1] IN
       \E r \in Responses :
         /\ att' = [att EXCEPT ![c] = Append(@, [server |-> server, resp |-> r])]
         /\ IF r.err
              THEN /\ lastErr' = [lastErr EXCEPT ![c] = server]
                   /\ UNCHANGED <<lpc, lret>>
              ELSE /\ lret' = [lret EXCEPT ![c] = [ok |-> TRUE, ips |-> r.ips, err |-> nilErr]]
                   /\ lpc' = [lpc EXCEPT ![c] = "ret"]
                   /\ UNCHANGED lastErr
  /\ UNCHANGED <<pipeVars, classVars, buildVars, toolVars, serverList, servers>>

\* One iteration of "for _, server := range servers": r.LookupIP answers
\* with an error (recorded in lastErr, next server), with addresses (return
\* ips, nil) or with no address and no error (next server).
LookupAttempt(c) ==
  /\ lpc[c] = "loop"
  /\ Len(att[c]) < Len(servers[c])
  /\ LET server == servers[c][Len(att[c]) + 1] IN
       \E r \in Responses :
         /\ att' = [att EXCEPT ![c] = Append(@, [server |-> server, resp |-> r])]
         /\ IF r.err
              THEN /\ lastErr' = [lastErr EXCEPT ![c] = server]
                   /\ UNCHANGED <<lpc, lret>>
              ELSE IF Len(r.ips) > 0
                THEN /\ lret' = [lret EXCEPT ![c] = [ok |-> TRUE, ips |-> r.ips, err |-> nilErr]]
                     /\ lpc' = [lpc EXCEPT ![c] = "ret"]
                     /\ UNCHANGED lastErr
                ELSE UNCHANGED <<lpc, lret, lastErr>>
  /\ UNCHANGED <<pipeVars, classVars, buildVars, toolVars, serverList, servers>>

\* The loop is over: return nil and the error that wraps lastErr.
LookupExhausted(c) ==
  /\ lpc[c] = "loop"
  /\ Len(att[c]) = Len(servers[c])
  /\ lret' = [lret EXCEPT ![c] = [ok |-> FALSE, ips |-> <<>>, err |-> lastErr[c]]]
  /\ lpc' = [lpc EXCEPT ![c] = "ret"]
  /\ UNCHANGED <<pipeVars, classVars, buildVars, toolVars, serverList, servers, att, lastErr>>

\* The caller has the result; the locals of the call are gone.
LookupDone(c) ==
  /\ lpc[c] = "ret"
  /\ lpc' = [lpc EXCEPT ![c] = "idle"]
  /\ servers' = [servers EXCEPT ![c] = <<>>]
  /\ att' = [att EXCEPT ![c] = <<>>]
  /\ lastErr' = [lastErr EXCEPT ![c] = "none"]
  /\ lret' = [lret EXCEPT ![c] = NoReturn]
  /\ UNCHANGED <<pipeVars, classVars, buildVars, toolVars, serverList>>

LookupStep(c) == LookupCall(c) \/ LookupAttempt(c) \/ LookupExhausted(c) \/ LookupDone(c)

LookupNext == \E c \in Callers : LookupStep(c)

LookupInit ==
  /\ input = <<>>
  /\ sinkFaulty = FALSE
  /\ cdnIPMap = EmptyMap
  /\ InitMain
  /\ InitLookup
  /\ InitClassify
  /\ InitBuilder
  /\ InitTools

\* Concurrent calls of lookupIPWithRetry, each answered as the resolvers
\* please.
LookupSpec == LookupInit /\ [][LookupNext]_vars

\* Each LookupIP returns within its two-second timeout and each goroutine
\* is scheduled: no caller that can take a step waits for ever.
LookupFairSpec == LookupSpec /\ \A c \in Callers : WF_vars(LookupStep(c))

-----------------------------------------------------------------------------
(* Classification of an address against a table *)

\* One call getCDNForIP(ip), for any address text.
Classify ==
  /\ \E ip \in Texts :
       /\ qip' = ip
       /\ qret' \in getCDNForIP(cdnIPMap, ip)
  /\ qhit' = NoHit
  /\ UNCHANGED <<pipeVars, lookupVars, buildVars, toolVars>>

\* One call isIPInRange(ip, start, end), for any address text and any range
\* of the table.
RangeTest ==
  /\ \E ip \in Texts :
       /\ qip' = ip
       /\ \E c \in DOMAIN cdnIPMap :
            \E i \in 1..Len(cdnIPMap[c]) :
              qhit' = [cdn |-> c, idx |-> i,
                       hit |-> isIPInRange(ip, cdnIPMap[c][i].Start, cdnIPMap[c][i].End)]
  /\ qret' = NoResult
  /\ UNCHANGED <<pipeVars, lookupVars, buildVars, toolVars>>

ClassifyNext == Classify \/ RangeTest

ClassifyInit ==
  /\ input = <<>>
  /\ sinkFaulty = FALSE
  /\ cdnIPMap \in Tables
  /\ InitMain
  /\ InitLookup
  /\ InitClassify
  /\ InitBuilder
  /\ InitTools

\* Calls of getCDNForIP and isIPInRange on any table and any address text.
ClassifySpec == ClassifyInit /\ [][ClassifyNext]_vars

-----------------------------------------------------------------------------
(* The result loop on its own, fed any stream of results *)

\* The results sent so far: those received, all of domain 1, and those in
\* the buffer.
Fed == drained[1] + Len(results)

\* What the workers do to the results channel, for an input of MaxResults
\* lines that all name domain 1: a worker sends the result of one more line
\* (any outcome processDomain can have), blocking while the buffer is full.
Feed ==
  /\ ~resultsClosed
  /\ Len(results) < resultsCap
  /\ Fed < Len(input)
  /\ \E a \in LookupAnswers, d \in Elapsed(1) :
       \E r \in processDomain(cdnIPMap, 1, a) :
         results' = Append(results, [resources |-> r.resources, err |-> r.err,
                                     domain |-> 1, duration |-> d])
  /\ UNCHANGED <<unitVars, input, sinkFaulty, pc, exitCode, cdnIPMap, totalDomains, scanPos,
                 ppc, pjob, jobs, jobsClosed, resultsClosed, wg, workerVars, cpc,
                 progressVars, sinkVars, histVars>>

\* Every line has its result: the workers return and results is closed.
FeedClose ==
  /\ ~resultsClosed
  /\ Fed = Len(input)
  /\ resultsClosed' = TRUE
  /\ wg' = 0
  /\ idle' = 0
  /\ exited' = poolSize
  /\ cpc' = "done"
  /\ UNCHANGED <<unitVars, input, sinkFaulty, pc, exitCode, cdnIPMap, totalDomains, scanPos,
                 ppc, pjob, jobs, jobsClosed, results, busy, progressVars, sinkVars, histVars>>

\* main() as it enters the result loop: the table of one CDN is loaded, the
\* MaxResults lines are counted, the header is in the writer's buffer, the
\* pool is started.
AggInit ==
  /\ input = [i \in 1..MaxResults |-> <<i, Comma, 1>>]
  /\ sinkFaulty = FALSE
  /\ pc = "drain"
  /\ exitCode = -1
  /\ cdnIPMap = [c \in {"ExampleCDN"} |-> cdnMapFile[c]]
  /\ totalDomains = MaxResults
  /\ scanPos = MaxResults
  /\ ppc = "done"
  /\ pjob = NoJob
  /\ jobs = <<>>
  /\ jobsClosed = TRUE
  /\ results = <<>>
  /\ resultsClosed = FALSE
  /\ wg = poolSize
  /\ idle = poolSize
  /\ busy = EmptyBag
  /\ exited = 0
  /\ cpc = "wait"
  /\ processedCount = 0
  /\ processingTimes = <<>>
  /\ logged = <<>>
  /\ wbuf = <<Header>>
  /\ werr = FALSE
  /\ outFile = <<>>
  /\ answered = [d \in 1..MaxLines |-> NoAnswer]
  /\ drained = [d \in 1..MaxLines |-> 0]
  /\ InitLookup
  /\ InitClassify
  /\ InitBuilder
  /\ InitTools

AggNext == Feed \/ FeedClose \/ AggRecv \/ AggEnd

\* The result loop of main() on every stream of up to MaxResults results.
AggSpec == AggInit /\ [][AggNext]_vars

-----------------------------------------------------------------------------
(* The range-table builder, cmd/cdn-asn-ip-map (the variant that reads the  *)
(* ip2asn table from a local file)                                          *)

\* The ip2asn data: AS2 owns 1.0 - 1.1, AS1 owns 0.0 - 0.1, AS2 owns 0.1 - 0.1
\* too. The source serves a table that is the start of this one.
ip2asn ==
  << [RangeStart |-> <<1, 0>>, RangeEnd |-> <<1, 1>>, ASNumber |-> 2],
     [RangeStart |-> <<0, 0>>, RangeEnd |-> <<0, 1>>, ASNumber |-> 1],
     [RangeStart |-> <<0, 1>>, RangeEnd |-> <<0, 1>>, ASNumber |-> 2] >>
Sources == { SubSeq(ip2asn, 1, k) : k \in 0..Len(ip2asn) }

\* An ASN of the input is written "1", "2" or, with the prefix, "AS1", "AS2":
\* the characters 1, 2, 11, 12.
TrimPrefixAS(asn) == IF asn > 10 THEN asn - 10 ELSE asn

\* The records the input can hold after the header: a CDN name alone, or a
\* name and one field of comma-separated ASNs (one names the same ASN
\* twice, as 2 and as AS2, after a quoted CDN name); and a record that
\* csv.Reader rejects (a bare quote), the empty tuple here.
BadRecord == <<>>
AsnFields == { <<11>>, <<11, Comma, 2>>, <<2, Comma, 11>> }
Records ==
  { <<n>> : n \in {"A", "B"} } \cup { <<n, f>> : n \in {"A", "B"}, f \in AsnFields }
    \cup { <<"\"A\"", <<2, Comma, 12>>>>, BadRecord }

\* The input files: no header (an empty file), a wrong header, or the header
\* cdn_name and up to MaxRows records.
CsvFiles ==
  { [header |-> "none", rows |-> <<>>], [header |-> "name", rows |-> <<>>] } \cup
  UNION { { [header |-> "cdn_name", rows |-> q] : q \in SeqsOfLen(Records, n) }
          : n \in 0..MaxRows }

\* strings.Trim(record[0], "\""): the name without quotes around it.
TrimQuotes(name) == IF name = "\"A\"" THEN "A" ELSE IF name = "\"B\"" THEN "B" ELSE name

\* The ASNs of a record: the fields after the first, split at the commas,
\* the empty pieces dropped.
RECURSIVE AsnsOf(_, _)
AsnsOf(record, i) ==
  IF i > Len(record) THEN <<>>
  ELSE SelectSeq(Split(record[i]), LAMBDA a : a # Comma) \o AsnsOf(record, i + 1)

\* getIPRangesForASN: the ranges of the entries of the ASN, in their order;
\* an error when there is none.
getIPRangesForASN(asn, entries) ==
  LET asnNumber == TrimPrefixAS(asn)
      matching == SelectSeq(entries, LAMBDA e : e.ASNumber = asnNumber)
      ipRanges == [k \in 1..Len(matching) |->
                     [Start |-> matching[k].RangeStart, End |-> matching[k].RangeEnd]]
  IN IF Len(ipRanges) = 0
       THEN [ranges |-> <<>>, err |-> TRUE]
       ELSE [ranges |-> ipRanges, err |-> FALSE]

\* cdnIPMap[cdnName] = append(cdnIPMap[cdnName], ipRanges...)
AppendRanges(m, cdnName, ipRanges) ==
  [c \in DOMAIN m \cup { cdnName } |->
     (IF c \in DOMAIN m THEN m[c] ELSE <<>>) \o (IF c = cdnName THEN ipRanges ELSE <<>>)]

\* A loop over the ASNs that a failed lookup ends (break for continue).
RECURSIVE addASNs_BreakOnError(_, _, _, _)
addASNs_BreakOnError(m, cdnName, asns, entries) ==
  IF asns = <<>> THEN m
  ELSE LET r == getIPRangesForASN(Head(asns), entries) IN
    IF r.err THEN m
    ELSE addASNs_BreakOnError(AppendRanges(m, cdnName, r.ranges), cdnName, Tail(asns), entries)

\* "for _, asn := range asns": a failed lookup is logged and skipped, the
\* ranges of any other are appended to the CDN's.
RECURSIVE addASNs(_, _, _, _)
addASNs(m, cdnName, asns, entries) ==
  IF asns = <<>> THEN m
  ELSE LET r == getIPRangesForASN(Head(asns), entries) IN
    addASNs(IF r.err THEN m ELSE AppendRanges(m, cdnName, r.ranges),
            cdnName, Tail(asns), entries)

\* log.Fatal in the builder.
BuildFatal ==
  /\ bpc' = "fatal"
  /\ bexit' = 1

\* os.Stat(*outputFile): an output that exists is not overwritten.
BuildCheckOutput ==
  /\ bpc = "stat"
  /\ IF outDisk[outputFile].exists
       THEN BuildFatal
       ELSE /\ bpc' = "tsv"
            /\ UNCHANGED bexit
  /\ UNCHANGED <<pipeVars, lookupVars, classVars, toolVars, csvIn, asnSource, tsvFile, outDisk,
                 outputFile, asnEntries, builtMap, rowPos, contacted>>

\* checkAndDownloadTSV: an ip2asn-v4.tsv that exists is used as it is; else
\* the table is downloaded and extracted. The download can fail before the
\* file is created; the extraction can fail after, and then leaves the
\* table, or a start of it, in the file.
BuildFetchTSV ==
  /\ bpc = "tsv"
  /\ IF tsvFile.exists
       THEN /\ bpc' = "load"
            /\ UNCHANGED <<bexit, tsvFile, contacted>>
       ELSE /\ contacted' = TRUE
            /\ \/ /\ tsvFile' = [exists |-> TRUE, entries |-> asnSource]
                  /\ bpc' = "load"
                  /\ UNCHANGED bexit
               \/ /\ UNCHANGED tsvFile
                  /\ BuildFatal
               \/ /\ \E k \in 0..Len(asnSource) :
                       tsvFile' = [exists |-> TRUE, entries |-> SubSeq(asnSource, 1, k)]
                  /\ BuildFatal
  /\ UNCHANGED <<pipeVars, lookupVars, classVars, toolVars, csvIn, asnSource, outDisk, outputFile,
                 asnEntries, builtMap, rowPos>>

\* loadASNEntries: every line of the file becomes an entry of the global.
BuildLoadTSV ==
  /\ bpc = "load"
  /\ \/ /\ asnEntries' = asnEntries \o tsvFile.entries
        /\ bpc' = "open"
        /\ UNCHANGED bexit
     \/ /\ UNCHANGED asnEntries
        /\ BuildFatal
  /\ UNCHANGED <<pipeVars, lookupVars, classVars, toolVars, csvIn, asnSource, tsvFile, outDisk,
                 outputFile, builtMap, rowPos, contacted>>

\* An input that is read on from where the last run stopped.
BuildOpenInput_KeepsPosition ==
  /\ bpc = "open"
  /\ \/ /\ bpc' = "header"
        /\ UNCHANGED <<bexit, rowPos>>
     \/ /\ BuildFatal
        /\ UNCHANGED rowPos
  /\ UNCHANGED <<pipeVars, lookupVars, classVars, toolVars, csvIn, asnSource, tsvFile, outDisk,
                 outputFile, asnEntries, builtMap, contacted>>

\* os.Open(*inputFile) and csv.NewReader(file): the reader is at the start
\* of the file.
BuildOpenInput ==
  /\ bpc = "open"
  /\ \/ /\ bpc' = "header"
        /\ rowPos' = 0
        /\ UNCHANGED bexit
     \/ /\ BuildFatal
        /\ UNCHANGED rowPos
  /\ UNCHANGED <<pipeVars, lookupVars, classVars, toolVars, csvIn, asnSource, tsvFile, outDisk,
                 outputFile, asnEntries, builtMap, contacted>>

\* The header is read and verified; cdnIPMap := make(CDNIPMap).
BuildReadHeader ==
  /\ bpc = "header"
  /\ IF csvIn.header = "cdn_name"
       THEN /\ bpc' = "rows"
            /\ builtMap' = EmptyMap
            /\ UNCHANGED bexit
       ELSE /\ BuildFatal
            /\ UNCHANGED builtMap
  /\ UNCHANGED <<pipeVars, lookupVars, classVars, toolVars, csvIn, asnSource, tsvFile, outDisk,
                 outputFile, asnEntries, rowPos, contacted>>

\* One iteration of the loop over the records: a record the reader rejects
\* is fatal; of any other the ASNs are looked up one after the other.
BuildRow ==
  /\ bpc = "rows"
  /\ rowPos < Len(csvIn.rows)
  /\ LET record == csvIn.rows[rowPos + 1] IN
       IF record = BadRecord
         THEN /\ BuildFatal
              /\ UNCHANGED <<builtMap, rowPos>>
         ELSE /\ builtMap' = addASNs(builtMap, TrimQuotes(record[1]), AsnsOf(record, 2),
                                     asnEntries)
              /\ rowPos' = rowPos + 1
              /\ UNCHANGED <<bpc, bexit>>
  /\ UNCHANGED <<pipeVars, lookupVars, classVars, toolVars, csvIn, asnSource, tsvFile, outDisk,
                 outputFile, asnEntries, contacted>>

\* io.EOF: the map is marshalled and written to the output file.
BuildWrite ==
  /\ bpc = "rows"
  /\ rowPos = Len(csvIn.rows)
  /\ \/ /\ outDisk' = [outDisk EXCEPT ![outputFile] = [exists |-> TRUE, table |-> builtMap]]
        /\ bpc' = "done"
        /\ bexit' = 0
     \/ /\ UNCHANGED outDisk
        /\ BuildFatal
  /\ UNCHANGED <<pipeVars, lookupVars, classVars, toolVars, csvIn, asnSource, tsvFile, outputFile,
                 asnEntries, builtMap, rowPos, contacted>>

\* The builder is run again, with the same input and any output path: a new
\* process, its global empty, with the files as the last one left them.
BuildAgain ==
  /\ bpc \in { "done", "fatal" }
  /\ outputFile' \in Paths
  /\ bpc' = "stat"
  /\ bexit' = -1
  /\ asnEntries' = <<>>
  /\ contacted' = FALSE
  /\ UNCHANGED <<pipeVars, lookupVars, classVars, toolVars, csvIn, asnSource, tsvFile, outDisk,
                 builtMap, rowPos>>

BuildNext ==
  \/ BuildCheckOutput
  \/ BuildFetchTSV
  \/ BuildLoadTSV
  \/ BuildOpenInput
  \/ BuildReadHeader
  \/ BuildRow
  \/ BuildWrite
  \/ BuildAgain

\* The builder at its start, for any input and any table at the source.
BuildInit ==
  /\ csvIn \in CsvFiles
  /\ asnSource \in Sources
  /\ tsvFile = NoFile
  /\ outDisk = [p \in Paths |-> NoOutput]
  /\ outputFile = "p1"
  /\ bpc = "stat"
  /\ bexit = -1
  /\ asnEntries = <<>>
  /\ builtMap = EmptyMap
  /\ rowPos = 0
  /\ contacted = FALSE
  /\ input = <<>>
  /\ sinkFaulty = FALSE
  /\ cdnIPMap = EmptyMap
  /\ InitMain
  /\ InitLookup
  /\ InitClassify
  /\ InitTools

\* Runs of the builder, one after the other.
BuildSpec == BuildInit /\ [][BuildNext]_vars

-----------------------------------------------------------------------------
(* The range-table builder, the variant that asks ipinfo.io for each ASN    *)

\* The character "/" of a netblock.
Slash == 9

\* strings.Split(prefix.Netblock, "/")
RECURSIVE SplitNetblock(_)
SplitNetblock(netblock) ==
  IF netblock = <<>> THEN << <<>> >>
  ELSE LET parts == SplitNetblock(Tail(netblock)) IN
    IF Head(netblock) = Slash THEN << <<>> >> \o parts
    ELSE << <<Head(netblock)>> \o Head(parts) >> \o Tail(parts)

\* What ipinfo.io announces: AS2 has 1.0/1 (1.0 and 1.1; the addresses have
\* two bits here, not 32), AS1 has 0.1/2 (one address), AS2 has a netblock
\* without a length too. The service answers with a start of this list.
ipinfo ==
  << [ASNumber |-> 2, Netblock |-> <<1, 0, Slash, 1>>],
     [ASNumber |-> 1, Netblock |-> <<0, 1, Slash, 2>>],
     [ASNumber |-> 2, Netblock |-> <<0, 0>>] >>
RemoteSources == { SubSeq(ipinfo, 1, k) : k \in 0..Len(ipinfo) }

\* getIPRangesForASN of this variant: an error when the request fails; else
\* one range for each netblock of two parts, its End the same text as its
\* Start.
getIPRangesForASNRemote(asn, source, requestFails) ==
  LET asnNumber == TrimPrefixAS(asn)
      prefixes == SelectSeq(source, LAMBDA e : e.ASNumber = asnNumber)
      netblocks == SelectSeq(prefixes, LAMBDA e : Len(SplitNetblock(e.Netblock)) = 2)
      ipRanges == [k \in 1..Len(netblocks) |->
                     [Start |-> SplitNetblock(netblocks[k].Netblock)[1],
                      End |-> SplitNetblock(netblocks[k].Netblock)[1]]]
  IN IF requestFails
       THEN [ranges |-> <<>>, err |-> TRUE]
       ELSE [ranges |-> ipRanges, err |-> FALSE]

\* "for _, asn := range asns" of this variant; the requests about the ASNs
\* of the set down fail.
RECURSIVE addASNsRemote(_, _, _, _, _)
addASNsRemote(m, cdnName, asns, source, down) ==
  IF asns = <<>> THEN m
  ELSE LET r == getIPRangesForASNRemote(Head(asns), source, TrimPrefixAS(Head(asns)) \in down) IN
    addASNsRemote(IF r.err THEN m ELSE AppendRanges(m, cdnName, r.ranges),
                  cdnName, Tail(asns), source, down)

\* os.Open(*inputFile) and csv.NewReader(file): the first steps of this
\* variant, which does not look at the output path.
RemoteOpenInput ==
  /\ bpc = "open"
  /\ \/ /\ bpc' = "header"
        /\ rowPos' = 0
        /\ UNCHANGED bexit
     \/ /\ BuildFatal
        /\ UNCHANGED rowPos
  /\ UNCHANGED <<pipeVars, lookupVars, classVars, toolVars, csvIn, asnSource, tsvFile, outDisk,
                 outputFile, asnEntries, builtMap, contacted>>

\* One iteration of the loop over the records, a request to ipinfo.io for
\* each ASN of the record; the service answers them all or none.
RemoteRow ==
  /\ bpc = "rows"
  /\ rowPos < Len(csvIn.rows)
  /\ LET record == csvIn.rows[rowPos + 1] IN
       IF record = BadRecord
         THEN /\ BuildFatal
              /\ UNCHANGED <<builtMap, rowPos, contacted>>
         ELSE /\ \E down \in { {}, { 1, 2 } } :
                   builtMap' = addASNsRemote(builtMap, TrimQuotes(record[1]),
                                             AsnsOf(record, 2), asnSource, down)
              /\ rowPos' = rowPos + 1
              /\ contacted' = (contacted \/ AsnsOf(record, 2) # <<>>)
              /\ UNCHANGED <<bpc, bexit>>
  /\ UNCHANGED <<pipeVars, lookupVars, classVars, toolVars, csvIn, asnSource, tsvFile, outDisk,
                 outputFile, asnEntries>>

\* This variant is run again with the same arguments: a new process that
\* starts by opening the input.
RemoteAgain ==
  /\ bpc \in { "done", "fatal" }
  /\ bpc' = "open"
  /\ bexit' = -1
  /\ contacted' = FALSE
  /\ UNCHANGED <<pipeVars, lookupVars, classVars, toolVars, csvIn, asnSource, tsvFile, outDisk,
                 outputFile, asnEntries, builtMap, rowPos>>

\* The header is read and the table is written as in the other variant:
\* ioutil.WriteFile truncates a file that exists.
RemoteNext ==
  \/ RemoteOpenInput
  \/ BuildReadHeader
  \/ RemoteRow
  \/ BuildWrite
  \/ RemoteAgain

\* This variant at its start, for any input and any answers of the service.
RemoteInit ==
  /\ csvIn \in CsvFiles
  /\ asnSource \in RemoteSources
  /\ tsvFile = NoFile
  /\ outDisk = [p \in Paths |-> NoOutput]
  /\ outputFile = "p1"
  /\ bpc = "open"
  /\ bexit = -1
  /\ asnEntries = <<>>
  /\ builtMap = EmptyMap
  /\ rowPos = 0
  /\ contacted = FALSE
  /\ input = <<>>
  /\ sinkFaulty = FALSE
  /\ cdnIPMap = EmptyMap
  /\ InitMain
  /\ InitLookup
  /\ InitClassify
  /\ InitTools

RemoteSpec == RemoteInit /\ [][RemoteNext]_vars

-----------------------------------------------------------------------------

Worker == WorkerRecv \/ WorkerProcess \/ WorkerExit
Producer == ProducerScan \/ ProducerSend \/ ProducerClose
Setup == LoadCDNIPMap \/ OpenInput \/ CountDomains \/ CreateOutput \/ WriteHeader
Start == StartWorkers \/ StartProducer \/ StartCloser
Aggregator == AggRecv \/ AggEnd

Next ==
  \/ Setup
  \/ Start
  \/ Producer
  \/ Worker
  \/ CloseResults
  \/ Aggregator

Spec == Init /\ [][Next]_vars

\* The runs with a sink that can fail.
SinkSpec == InitSink /\ [][Next]_vars

\* The Go scheduler runs a goroutine whenever one can take a step: the
\* process does not stop while a step is possible. (Fairness to each single
\* goroutine implies this, since a goroutine that can take a step stays able
\* to until some goroutine takes one.)
Fairness == WF_vars(Next)

FairSpec == Spec /\ Fairness

-----------------------------------------------------------------------------
(* The test runner                                                          *)

\* Largest number of test cases in the JSON file, largest -workers value.
MaxTests == 3
MaxWorkers == 2

\* The return code of the script: 0, an exit code of its own, or -1 when
\* it could not be run.
ReturnCodes == { 0, 1, -1 }

\* Every part of the model but the test runner, not run.
RunnerOnly ==
  /\ input = <<>>
  /\ sinkFaulty = FALSE
  /\ cdnIPMap = EmptyMap
  /\ InitMain
  /\ InitLookup
  /\ InitClassify
  /\ InitBuilder
  /\ InitGenerator
  /\ InitCrawler

\* main() after the JSON file is parsed: the test cases, named by their
\* place in the list, and the two channels made, empty.
RunInit ==
  /\ numWorkers \in 0..MaxWorkers
  /\ testCases \in { [i \in 1..n |-> i] : n \in 0..MaxTests }
  /\ tpc = "start"
  /\ tsent = 0
  /\ testCaseChan = <<>>
  /\ testCaseClosed = FALSE
  /\ resultChan = <<>>
  /\ resultClosed = FALSE
  /\ twg = 0
  /\ tidle = 0
  /\ tbusy = {}
  /\ texited = 0
  /\ tcpc = "none"
  /\ successCount = 0
  /\ failureCount = 0
  /\ executed = [i \in 1..Len(testCases) |-> 0]
  /\ RunnerOnly

\* for i := 0; i < *numWorkers; i++ { wg.Add(1); go worker(...) }
RunStartWorkers ==
  /\ tpc = "start"
  /\ tidle' = numWorkers
  /\ twg' = numWorkers
  /\ tpc' = "send"
  /\ UNCHANGED <<pipeVars, lookupVars, classVars, buildVars, genVars, crawlVars,
                 numWorkers, testCases, tsent, testCaseChan, testCaseClosed, resultChan,
                 resultClosed, tbusy, texited, tcpc, successCount, failureCount, executed>>

\* testCaseChan <- tc: the buffer has room for every test case.
RunSend ==
  /\ tpc = "send"
  /\ tsent < Len(testCases)
  /\ Len(testCaseChan) < Len(testCases)
  /\ testCaseChan' = Append(testCaseChan, testCases[tsent + 1])
  /\ tsent' = tsent + 1
  /\ UNCHANGED <<pipeVars, lookupVars, classVars, buildVars, genVars, crawlVars,
                 numWorkers, testCases, tpc, testCaseClosed, resultChan, resultClosed,
                 twg, tidle, tbusy, texited, tcpc, successCount, failureCount, executed>>

\* close(testCaseChan)
RunCloseCases ==
  /\ tpc = "send"
  /\ tsent = Len(testCases)
  /\ testCaseClosed' = TRUE
  /\ tpc' = "closer"
  /\ UNCHANGED <<pipeVars, lookupVars, classVars, buildVars, genVars, crawlVars,
                 numWorkers, testCases, tsent, testCaseChan, resultChan, resultClosed,
                 twg, tidle, tbusy, texited, tcpc, successCount, failureCount, executed>>

\* go func() { wg.Wait(); close(resultChan) }()
RunStartCloser ==
  /\ tpc = "closer"
  /\ tcpc' = "wait"
  /\ tpc' = "drain"
  /\ UNCHANGED <<pipeVars, lookupVars, classVars, buildVars, genVars, crawlVars,
                 numWorkers, testCases, tsent, testCaseChan, testCaseClosed, resultChan,
                 resultClosed, twg, tidle, tbusy, texited, successCount, failureCount,
                 executed>>

\* for tc := range testCases: a waiting worker receives a test case.
RunWorkerRecv ==
  /\ tidle > 0
  /\ testCaseChan # <<>>
  /\ tidle' = tidle - 1
  /\ tbusy' = tbusy \cup { Head(testCaseChan) }
  /\ testCaseChan' = Tail(testCaseChan)
  /\ UNCHANGED <<pipeVars, lookupVars, classVars, buildVars, genVars, crawlVars,
                 numWorkers, testCases, tpc, tsent, testCaseClosed, resultChan,
                 resultClosed, twg, texited, tcpc, successCount, failureCount, executed>>

\* The loop body of a worker: the script is run and the result is sent; the
\* worker then waits for the next test case.
RunWorkerExec ==
  /\ ~resultClosed
  /\ Len(resultChan) < Len(testCases)
  /\ \E tc \in tbusy, returnCode \in ReturnCodes :
       /\ resultChan' = Append(resultChan, [TestCase |-> tc, ReturnCode |-> returnCode])
       /\ executed' = [executed EXCEPT ![tc] = @ + 1]
       /\ tbusy' = tbusy \ { tc }
  /\ tidle' = tidle + 1
  /\ UNCHANGED <<pipeVars, lookupVars, classVars, buildVars, genVars, crawlVars,
                 numWorkers, testCases, tpc, tsent, testCaseChan, testCaseClosed,
                 resultClosed, twg, texited, tcpc, successCount, failureCount>>

\* The range loop of a waiting worker ends on the closed, empty channel;
\* defer wg.Done().
RunWorkerExit ==
  /\ tidle > 0
  /\ testCaseChan = <<>>
  /\ testCaseClosed
  /\ tidle' = tidle - 1
  /\ texited' = texited + 1
  /\ twg' = twg - 1
  /\ UNCHANGED <<pipeVars, lookupVars, classVars, buildVars, genVars, crawlVars,
                 numWorkers, testCases, tpc, tsent, testCaseChan, testCaseClosed,
                 resultChan, resultClosed, tbusy, tcpc, successCount, failureCount,
                 executed>>

\* wg.Wait() returns when the counter is zero; close(resultChan).
RunCloseResults ==
  /\ tcpc = "wait"
  /\ twg = 0
  /\ resultClosed' = TRUE
  /\ tcpc' = "done"
  /\ UNCHANGED <<pipeVars, lookupVars, classVars, buildVars, genVars, crawlVars,
                 numWorkers, testCases, tpc, tsent, testCaseChan, testCaseClosed,
                 resultChan, twg, tidle, tbusy, texited, successCount, failureCount,
                 executed>>

\* for result := range resultChan: one result is counted.
RunRecv ==
  /\ tpc = "drain"
  /\ resultChan # <<>>
  /\ resultChan' = Tail(resultChan)
  /\ IF Head(resultChan).ReturnCode = 0
       THEN /\ successCount' = successCount + 1
            /\ UNCHANGED failureCount
       ELSE /\ failureCount' = failureCount + 1
            /\ UNCHANGED successCount
  /\ UNCHANGED <<pipeVars, lookupVars, classVars, buildVars, genVars, crawlVars,
                 numWorkers, testCases, tpc, tsent, testCaseChan, testCaseClosed,
                 resultClosed, twg, tidle, tbusy, texited, tcpc, executed>>

\* The result loop ends on the closed, empty channel; the totals are logged.
RunEnd ==
  /\ tpc = "drain"
  /\ resultChan = <<>>
  /\ resultClosed
  /\ tpc' = "done"
  /\ UNCHANGED <<pipeVars, lookupVars, classVars, buildVars, genVars, crawlVars,
                 numWorkers, testCases, tsent, testCaseChan, testCaseClosed, resultChan,
                 resultClosed, twg, tidle, tbusy, texited, tcpc, successCount,
                 failureCount, executed>>

RunNext ==
  \/ RunStartWorkers
  \/ RunSend
  \/ RunCloseCases
  \/ RunStartCloser
  \/ RunWorkerRecv
  \/ RunWorkerExec
  \/ RunWorkerExit
  \/ RunCloseResults
  \/ RunRecv
  \/ RunEnd

RunSpec == RunInit /\ [][RunNext]_vars

-----------------------------------------------------------------------------
(* The test-case generator                                                  *)

\* Largest number of records in the JSON file.
MaxRecords == 4

\* The character "|" of a key; the characters of a domain or a URL are
\* other numbers.
Bar == 8

\* The visited domains "1", "2" and "1|1"; the resource URLs "h/5" and
\* "h/7", with a path, and "h/", without.
Domains == { <<1>>, <<2>>, <<1, Bar, 1>> }
RootURL == <<6>>

\* url.Parse(record.ResourceURL).Path
urlPath(resourceURL) == IF resourceURL = RootURL THEN "/" ELSE "/x"

\* The records a file can hold.
CDNRecords ==
  { [CDN |-> "A", VisitedDomain |-> d, ResourceURL |-> <<5>>] : d \in Domains } \cup
  { [CDN |-> "B", VisitedDomain |-> d, ResourceURL |-> <<5>>] : d \in { <<1>>, <<2>> } } \cup
  { [CDN |-> "A", VisitedDomain |-> <<1>>, ResourceURL |-> RootURL],
    [CDN |-> "A", VisitedDomain |-> <<1>>, ResourceURL |-> <<7>>] }

\* "Group records by CDN": a record whose URL has the path "/" or none is
\* skipped, any other is appended to the bucket of its CDN.
RECURSIVE groupRecords(_, _)
groupRecords(buckets, recs) ==
  IF recs = <<>> THEN buckets
  ELSE LET record == Head(recs) IN
    groupRecords(IF urlPath(record.ResourceURL) \in { "", "/" }
                   THEN buckets
                   ELSE AppendRanges(buckets, record.CDN, <<record>>),
                 Tail(recs))

\* fmt.Sprintf("%s|%s", ...) and fmt.Sprintf("%s|%s|%s", ...)
domainPairKey(target, front) == target \o <<Bar>> \o front
testCaseKey(testCase) ==
  testCase.TargetDomain \o <<Bar>> \o testCase.FrontDomain \o <<Bar>> \o testCase.TargetUrl

\* The test case of record and otherRecord.
TestCaseOf(record, otherRecord, cdn) ==
  [TargetDomain |-> record.VisitedDomain, FrontDomain |-> otherRecord.VisitedDomain,
   TargetUrl |-> record.ResourceURL, CDN |-> cdn]

\* An inner loop that does not skip the records already used.
RECURSIVE findFront_IgnoresUsed(_, _, _, _, _, _, _)
findFront_IgnoresUsed(bucket, cdn, i, j, used, pairs, keys) ==
  IF j > Len(bucket) THEN 0
  ELSE IF i = j \/ bucket[i].VisitedDomain = bucket[j].VisitedDomain
    THEN findFront_IgnoresUsed(bucket, cdn, i, j + 1, used, pairs, keys)
  ELSE IF domainPairKey(bucket[i].VisitedDomain, bucket[j].VisitedDomain) \in pairs
    THEN findFront_IgnoresUsed(bucket, cdn, i, j + 1, used, pairs, keys)
  ELSE IF testCaseKey(TestCaseOf(bucket[i], bucket[j], cdn)) \notin keys
    THEN j
  ELSE findFront_IgnoresUsed(bucket, cdn, i, j + 1, used, pairs, keys)

\* The inner loop "for j := 0; j < len(bucket); j++" from index j on: the
\* first record that is not used, is not record i, has another visited
\* domain, makes a domain pair that is not used and a test case whose key
\* is new; 0 when the loop ends without one.
RECURSIVE findFront(_, _, _, _, _, _, _)
findFront(bucket, cdn, i, j, used, pairs, keys) ==
  IF j > Len(bucket) THEN 0
  ELSE IF j \in used \/ i = j \/ bucket[i].VisitedDomain = bucket[j].VisitedDomain
    THEN findFront(bucket, cdn, i, j + 1, used, pairs, keys)
  ELSE IF domainPairKey(bucket[i].VisitedDomain, bucket[j].VisitedDomain) \in pairs
    THEN findFront(bucket, cdn, i, j + 1, used, pairs, keys)
  ELSE IF testCaseKey(TestCaseOf(bucket[i], bucket[j], cdn)) \notin keys
    THEN j
  ELSE findFront(bucket, cdn, i, j + 1, used, pairs, keys)

\* "Create a new bucket without the used records", from index k on.
RECURSIVE newBucket(_, _, _)
newBucket(bucket, k, used) ==
  IF k > Len(bucket) THEN <<>>
  ELSE (IF k \in used THEN <<>> ELSE <<bucket[k]>>) \o newBucket(bucket, k + 1, used)

\* Every part of the model but the generator, not run.
GeneratorOnly ==
  /\ input = <<>>
  /\ sinkFaulty = FALSE
  /\ cdnIPMap = EmptyMap
  /\ InitMain
  /\ InitLookup
  /\ InitClassify
  /\ InitBuilder
  /\ InitRunner
  /\ InitCrawler

\* main() after the JSON file is parsed.
GenInit ==
  /\ cdnRecords \in UNION { SeqsOfLen(CDNRecords, n) : n \in 0..MaxRecords }
  /\ cdnBuckets = EmptyMap
  /\ origBuckets = EmptyMap
  /\ genCases = <<>>
  /\ pairedIdx = <<>>
  /\ testCaseMap = {}
  /\ domainPairMap = {}
  /\ gcdn = "none"
  /\ gi = 0
  /\ usedRecords = {}
  /\ gdone = {}
  /\ gpc = "group"
  /\ GeneratorOnly

\* The records are grouped into the buckets.
GenGroup ==
  /\ gpc = "group"
  /\ cdnBuckets' = groupRecords(EmptyMap, cdnRecords)
  /\ origBuckets' = cdnBuckets'
  /\ gpc' = "pick"
  /\ UNCHANGED <<pipeVars, lookupVars, classVars, buildVars, runVars, crawlVars,
                 cdnRecords, genCases, pairedIdx, testCaseMap, domainPairMap, gcdn, gi,
                 usedRecords, gdone>>

\* "for cdn, bucket := range cdnBuckets": the next CDN, in any order;
\* usedRecords := make(map[int]bool).
GenPickCDN ==
  /\ gpc = "pick"
  /\ \E cdn \in DOMAIN cdnBuckets \ gdone :
       gcdn' = cdn
  /\ gi' = 0
  /\ usedRecords' = {}
  /\ gpc' = "bucket"
  /\ UNCHANGED <<pipeVars, lookupVars, classVars, buildVars, runVars, crawlVars,
                 cdnRecords, cdnBuckets, origBuckets, genCases, pairedIdx, testCaseMap,
                 domainPairMap, gdone>>

\* An iteration that does not record the domain pair of its test case.
GenRecord_NoPairMark ==
  /\ gpc = "bucket"
  /\ gi < Len(cdnBuckets[gcdn])
  /\ gi' = gi + 1
  /\ LET bucket == cdnBuckets[gcdn]
         i == gi + 1
         j == IF i \in usedRecords THEN 0
              ELSE findFront(bucket, gcdn, i, 1, usedRecords, domainPairMap, testCaseMap)
     IN IF j = 0
          THEN UNCHANGED <<genCases, pairedIdx, testCaseMap, domainPairMap, usedRecords>>
          ELSE LET testCase == TestCaseOf(bucket[i], bucket[j], gcdn) IN
            /\ genCases' = Append(genCases, testCase)
            /\ pairedIdx' = Append(pairedIdx, <<gcdn, i, j>>)
            /\ testCaseMap' = testCaseMap \cup { testCaseKey(testCase) }
            /\ UNCHANGED domainPairMap
            /\ usedRecords' = usedRecords \cup { i, j }
  /\ UNCHANGED <<pipeVars, lookupVars, classVars, buildVars, runVars, crawlVars,
                 cdnRecords, cdnBuckets, origBuckets, gcdn, gdone, gpc>>

\* One iteration of "for i := 0; i < len(bucket); i++": a record that is
\* used is skipped; for any other the inner loop looks for a front, and
\* with one found the test case is appended, its key and its domain pair
\* are recorded and both records are marked used.
GenRecord ==
  /\ gpc = "bucket"
  /\ gi < Len(cdnBuckets[gcdn])
  /\ gi' = gi + 1
  /\ LET bucket == cdnBuckets[gcdn]
         i == gi + 1
         j == IF i \in usedRecords THEN 0
              ELSE findFront(bucket, gcdn, i, 1, usedRecords, domainPairMap, testCaseMap)
     IN IF j = 0
          THEN UNCHANGED <<genCases, pairedIdx, testCaseMap, domainPairMap, usedRecords>>
          ELSE LET testCase == TestCaseOf(bucket[i], bucket[j], gcdn) IN
            /\ genCases' = Append(genCases, testCase)
            /\ pairedIdx' = Append(pairedIdx, <<gcdn, i, j>>)
            /\ testCaseMap' = testCaseMap \cup { testCaseKey(testCase) }
            /\ domainPairMap' = domainPairMap \cup
                 { domainPairKey(testCase.TargetDomain, testCase.FrontDomain) }
            /\ usedRecords' = usedRecords \cup { i, j }
  /\ UNCHANGED <<pipeVars, lookupVars, classVars, buildVars, runVars, crawlVars,
                 cdnRecords, cdnBuckets, origBuckets, gcdn, gdone, gpc>>

\* The loop over the bucket has ended: cdnBuckets[cdn] = newBucket.
GenFinishBucket ==
  /\ gpc = "bucket"
  /\ gi = Len(cdnBuckets[gcdn])
  /\ cdnBuckets' = [cdnBuckets EXCEPT ![gcdn] = newBucket(cdnBuckets[gcdn], 1, usedRecords)]
  /\ gdone' = gdone \cup { gcdn }
  /\ gcdn' = "none"
  /\ gpc' = "pick"
  /\ UNCHANGED <<pipeVars, lookupVars, classVars, buildVars, runVars, crawlVars,
                 cdnRecords, origBuckets, genCases, pairedIdx, testCaseMap, domainPairMap,
                 gi, usedRecords>>

\* The iteration over the map has visited every CDN: the totals are logged.
GenEnd ==
  /\ gpc = "pick"
  /\ gdone = DOMAIN cdnBuckets
  /\ gpc' = "done"
  /\ UNCHANGED <<pipeVars, lookupVars, classVars, buildVars, runVars, crawlVars,
                 cdnRecords, cdnBuckets, origBuckets, genCases, pairedIdx, testCaseMap,
                 domainPairMap, gcdn, gi, usedRecords, gdone>>

GenNext ==
  \/ GenGroup
  \/ GenPickCDN
  \/ GenRecord
  \/ GenFinishBucket
  \/ GenEnd

GenSpec == GenInit /\ [][GenNext]_vars

-----------------------------------------------------------------------------
(* The crawler: getLatestCommonCrawlIndex                                   *)

\* Largest number of lines in an answer of the index server.
MaxIndexLines == 2

\* The index records (of CommonCrawlCDX, the fields URL and Redirect), and
\* the lines of an answer: the empty line, a line that is not JSON, and the
\* JSON text of a record.
CDXRecords == { [URL |-> u, Redirect |-> r] : u \in { "u1", "u2" }, r \in { "", "r" } }
IndexLines ==
  { [text |-> "empty", index |-> <<>>], [text |-> "bad", index |-> <<>>] } \cup
  { [text |-> "json", index |-> <<x>>] : x \in CDXRecords }

\* What the index server can answer to the query for a domain: the request
\* fails, the status is not 200, or the status is 200 and the body has
\* up to MaxIndexLines lines.
CDXResponses ==
  { [fetch |-> f, lines |-> <<>>] : f \in { "error", "status" } } \cup
  { [fetch |-> "ok", lines |-> q] :
      q \in UNION { SeqsOfLen(IndexLines, n) : n \in 0..MaxIndexLines } }

NoCrawlReturn == [returned |-> FALSE, err |-> "none", index |-> <<>>]
CrawlError(e) == [returned |-> TRUE, err |-> e, index |-> <<>>]

\* The scanner loop: the records of the lines, the empty lines skipped, up
\* to the first line that json.Unmarshal rejects.
RECURSIVE scanIndexes(_)
scanIndexes(lines) ==
  IF lines = <<>> THEN [err |-> FALSE, indexes |-> <<>>]
  ELSE IF Head(lines).text = "empty" THEN scanIndexes(Tail(lines))
  ELSE IF Head(lines).text = "bad" THEN [err |-> TRUE, indexes |-> <<>>]
  ELSE LET rest == scanIndexes(Tail(lines)) IN
    [err |-> rest.err, indexes |-> Head(lines).index \o rest.indexes]

\* &indexes[0].Redirect: the address of a field of an element of the slice,
\* which is never nil.
AddressOfRedirect(index) == "pointer"

\* getLatestCommonCrawlIndex from the query for the domain on.
queryIndex(resp) ==
  IF resp.fetch = "error" THEN CrawlError("fetch")
  ELSE IF resp.fetch = "status" THEN CrawlError("status")
  ELSE LET scanned == scanIndexes(resp.lines) IN
    IF scanned.err THEN CrawlError("decode")
    ELSE IF Len(scanned.indexes) = 0 THEN CrawlError("noIndex")
    ELSE IF AddressOfRedirect(scanned.indexes[1]) # "nil" THEN CrawlError("redirect")
    ELSE [returned |-> TRUE, err |-> "nil", index |-> <<scanned.indexes[1]>>]

\* Every part of the model but the crawler, not run.
CrawlerOnly ==
  /\ input = <<>>
  /\ sinkFaulty = FALSE
  /\ cdnIPMap = EmptyMap
  /\ InitMain
  /\ InitLookup
  /\ InitClassify
  /\ InitBuilder
  /\ InitRunner
  /\ InitGenerator

\* The crawler before the first call.
CrawlInit ==
  /\ latestCollectionInfo = "nil"
  /\ cdxResponse = [fetch |-> "none", lines |-> <<>>]
  /\ crawlRet = NoCrawlReturn
  /\ kpc = "idle"
  /\ CrawlerOnly

\* processDomain calls getLatestCommonCrawlIndex(domain); the index server
\* will answer the query for this domain with any of the responses.
CrawlCall ==
  /\ kpc = "idle"
  /\ cdxResponse' \in CDXResponses
  /\ crawlRet' = NoCrawlReturn
  /\ kpc' = IF latestCollectionInfo = "nil" THEN "collinfo" ELSE "query"
  /\ UNCHANGED <<pipeVars, lookupVars, classVars, buildVars, runVars, genVars,
                 latestCollectionInfo>>

\* latestCollectionInfo == nil: the list of collections is fetched. A failed
\* request or a status that is not 200 panics; a body that cannot be
\* decoded or an empty list is returned as an error; else the first
\* collection is stored in the global.
CrawlCollInfo ==
  /\ kpc = "collinfo"
  /\ \/ /\ kpc' = "panic"
        /\ UNCHANGED <<latestCollectionInfo, crawlRet>>
     \/ /\ \E e \in { "collDecode", "noCollection" } : crawlRet' = CrawlError(e)
        /\ kpc' = "idle"
        /\ UNCHANGED latestCollectionInfo
     \/ /\ latestCollectionInfo' = "collection"
        /\ kpc' = "query"
        /\ UNCHANGED crawlRet
  /\ UNCHANGED <<pipeVars, lookupVars, classVars, buildVars, runVars, genVars, cdxResponse>>

\* The query for the domain, the scan of its answer and the return.
CrawlQuery ==
  /\ kpc = "query"
  /\ crawlRet' = queryIndex(cdxResponse)
  /\ kpc' = "idle"
  /\ UNCHANGED <<pipeVars, lookupVars, classVars, buildVars, runVars, genVars,
                 latestCollectionInfo, cdxResponse>>

CrawlNext ==
  \/ CrawlCall
  \/ CrawlCollInfo
  \/ CrawlQuery

CrawlSpec == CrawlInit /\ [][CrawlNext]_vars

-----------------------------------------------------------------------------
(* Properties *)

\* Line i of the input names a domain (it has at least two fields).
ValidLine(i) == i \in 1..Len(input) /\ Len(Split(input[i])) >= 2

RECURSIVE SumOver(_, _)
SumOver(f, S) == IF S = {} THEN 0
                 ELSE LET x == CHOOSE y \in S : TRUE IN f[x] + SumOver(f, S \ {x})

\* The number of results the aggregator has received.
DrainedTotal == SumOver(drained, DOMAIN drained)

\* How many elements of a channel buffer are about domain d.
CountIn(s, d) == Cardinality({ k \in 1..Len(s) : s[k].domain = d })

\* How many workers hold the job of domain d.
HeldBy(d) ==
  LET J == { j \in BagToSet(busy) : j.domain = d }
  IN SumOver([j \in J |-> CopiesIn(j, busy)], J)

\* The records of the output file after the first.
DataRows == IF outFile = <<>> THEN <<>> ELSE Tail(outFile)

\* The data rows of the output file about domain d.
RowsOf(d) == { k \in 1..Len(DataRows) : DataRows[k][2] = d }

\* Domain d was resolved, and its first address lies in a range of the table.
Resolved(d) == answered[d].asked /\ answered[d].ok /\ Len(answered[d].ips) > 0
FirstAddr(d) == String(answered[d].ips[1])
Attributed(d) == Resolved(d) /\ MatchingCDNs(cdnMapFile, FirstAddr(d)) # {}

C2_ExactlyOnce ==
  /\ \A d \in 1..MaxLines :
       (IF pjob.domain = d THEN 1 ELSE 0) + CountIn(jobs, d) + HeldBy(d)
         + CountIn(results, d) + drained[d]
       = IF d <= scanPos /\ ValidLine(d) THEN 1 ELSE 0
  /\ pc = "done" =>
       /\ jobs = <<>> /\ results = <<>> /\ pjob = NoJob
       /\ BagCardinality(busy) = 0

\* Two workers hold different jobs while the result of a third job has
\* already been received.
C2_Witness ==
  /\ Cardinality(BagToSet(busy)) >= 2
  /\ DrainedTotal >= 1

\* The run has resolved every domain of a three-line input and none of them
\* resolved.
AllFailed ==
  /\ Len(input) = 3
  /\ \A i \in 1..3 : ValidLine(i) /\ answered[i].asked /\ ~answered[i].ok

\* The pipeline has come to its normal end.
Finished ==
  /\ pc = "done"
  /\ exitCode = 0
  /\ ppc = "done"
  /\ jobsClosed
  /\ exited = poolSize /\ idle = 0 /\ BagCardinality(busy) = 0
  /\ cpc = "done"
  /\ resultsClosed

\* C3: under fair scheduling, once setup has succeeded (the pool is about to
\* be started) the pipeline eventually finishes: the producer has closed
\* jobs, every worker has exited, results is closed, the aggregator loop has
\* ended and the process exits with code 0, whatever the outcomes of the
\* domains.
C3_Terminates == (pc = "workers") ~> Finished

\* A run has finished with exit code 0 although every domain failed.
C3_Witness == Finished /\ AllFailed

\* C4: a result with an error does not end the batch: when the run ends,
\* every domain that comes after a domain that failed to resolve or had no
\* CDN has been resolved and its result received, and if its address lies
\* in a range it has its row in the output.
C4_FailureDoesNotEndBatch ==
  pc = "done" =>
    \A j, i \in 1..MaxLines :
      (j < i /\ ValidLine(j) /\ ValidLine(i) /\ answered[j].asked /\ ~Attributed(j)) =>
        /\ answered[i].asked
        /\ drained[i] = 1
        /\ Attributed(i) => RowsOf(i) # {}

\* Scenario C: three rows, only row 2 fails to resolve; rows 1 and 3 have
\* their output rows.
C4_Witness ==
  /\ pc = "done"
  /\ Len(input) = 3
  /\ \A i \in 1..3 : ValidLine(i)
  /\ Attributed(1) /\ answered[2].asked /\ ~answered[2].ok /\ Attributed(3)
  /\ RowsOf(1) # {} /\ RowsOf(2) = {} /\ RowsOf(3) # {}
  /\ processedCount = 1

\* C5: every data row of the output is (cdn, domain, first address) of a
\* domain that resolved, with the address in a range of that CDN, and no
\* domain has two rows; when the run ends a domain has a row if and only if
\* it resolved and its first address lies in some range of the table.
C5_RowIffAttributed ==
  /\ \A k \in 1..Len(DataRows) :
       LET d == DataRows[k][2] IN
         /\ ValidLine(d)
         /\ Resolved(d)
         /\ DataRows[k][3] = FirstAddr(d)
         /\ DataRows[k][1] \in MatchingCDNs(cdnMapFile, FirstAddr(d))
         /\ RowsOf(d) = {k}
  /\ pc = "done" =>
       \A d \in 1..MaxLines : RowsOf(d) # {} <=> (ValidLine(d) /\ Attributed(d))

\* Scenarios A and B in one run: a domain whose address lies in a range has
\* its row, a domain that resolved to an address in no range has none, and
\* the run has ended.
C5_Witness ==
  /\ pc = "done"
  /\ \E d, e \in 1..MaxLines :
       /\ d < e
       /\ Resolved(d) /\ ~Attributed(d) /\ RowsOf(d) = {}
       /\ Attributed(e) /\ RowsOf(e) # {}

\* The positions of main() after the header has been written.
AfterHeader == { "workers", "producer", "closer", "drain", "done" }

\* C6 (as stated): once the header is written, the file is at every moment
\* the header followed by rows, and every record written so far is in the
\* file (none is left in the writer's buffer) when the aggregator turns to
\* the next result.
C6_HeaderThenFlushedRows ==
  pc \in AfterHeader =>
    /\ outFile # <<>>
    /\ outFile[1] = Header
    /\ wbuf = <<>>

\* The steps of the goroutines other than main.
OtherGoroutines == Producer \/ Worker \/ CloseResults

\* C7: no step of the producer, of a worker or of the goroutine that closes
\* results changes the output (the csv.Writer's buffer and error, the file)
\* or the progress state (processedCount, processingTimes).
C7_OnlyAggregatorWrites ==
  [][OtherGoroutines => UNCHANGED <<sinkVars, progressVars>>]_vars

\* A worker is resolving while rows are in the file, a failure has been
\* counted and a duration recorded.
C7_Witness ==
  /\ BagCardinality(busy) >= 1
  /\ Len(outFile) >= 2
  /\ processedCount >= 1
  /\ processingTimes # <<>>

\* Domains read from the input (jobs made) whose result is not yet received.
InFlight ==
  Cardinality({ i \in 1..scanPos : ValidLine(i) }) - DrainedTotal

\* The number of workers that are resolving a domain, and of workers.
Resolving == BagCardinality(busy)
PoolWorkers == idle + BagCardinality(busy) + exited

\* C8: the jobs buffer never holds more than threadCount jobs, the results
\* buffer never more than threadCount results, and the domains in flight are
\* those in the two buffers, with the workers and with the producer: at most
\* 3 * threadCount + 1.
C8_BoundedQueues ==
  /\ Len(jobs) <= threadCount
  /\ Len(results) <= threadCount
  /\ InFlight = Len(jobs) + Len(results) + Resolving
                  + (IF ppc = "send" THEN 1 ELSE 0)
  /\ InFlight <= 3 * threadCount + 1

\* The jobs buffer is full and the producer is blocked with the next job.
C8_Witness ==
  /\ Len(jobs) = threadCount
  /\ ppc = "send"
  /\ pjob # NoJob

\* C9: at most threadCount resolutions are in progress, and at most
\* threadCount workers exist.
C9_AtMostNResolving ==
  /\ Resolving <= threadCount
  /\ PoolWorkers <= threadCount

\* threadCount resolutions are in progress at once.
C9_Witness == Resolving = threadCount

\* A worker has been started or a domain has been classified.
PoolStarted == PoolWorkers > 0 \/ (\E d \in 1..MaxLines : answered[d].asked)

\* C10: whenever a worker exists or a classification has happened the table
\* is the whole table of the file, and no step after the load changes it.
C10_TableLoadedThenFixed ==
  /\ [](PoolStarted => cdnIPMap = cdnMapFile)
  /\ [][pc # "load" => cdnIPMap' = cdnIPMap]_vars

\* A domain has been classified against the loaded table.
C10_Witness ==
  /\ cdnIPMap = cdnMapFile
  /\ \E d \in 1..MaxLines : Attributed(d) /\ RowsOf(d) # {}

-----------------------------------------------------------------------------
(* Properties of lookupIPWithRetry *)

\* The servers caller c has tried in its call, in the order of the attempts.
Tried(c) == [k \in 1..Len(att[c]) |-> att[c][k].server]

\* Attempt k of caller c got at least one address.
Good(c, k) == ~att[c][k].resp.err /\ Len(att[c][k].resp.ips) > 0

\* The responses caller c has seen, as a function of the server; a server
\* not asked would have answered with an error.
RespOf(c) ==
  [s \in Range(publicDNSServers) |->
     IF \E k \in 1..Len(att[c]) : att[c][k].server = s
       THEN att[c][CHOOSE k \in 1..Len(att[c]) : att[c][k].server = s].resp
       ELSE [err |-> TRUE, ips |-> <<>>]]

\* The attempts of caller c are the start of a permutation of the resolver
\* list: at most len(publicDNSServers), and no server twice.
AttemptsFollowPermutation(c) ==
  /\ Len(att[c]) <= Len(publicDNSServers)
  /\ \A j, k \in 1..Len(att[c]) : j # k => att[c][j].server # att[c][k].server
  /\ lpc[c] # "idle" =>
       /\ Len(servers[c]) = Len(publicDNSServers)
       /\ Range(servers[c]) = Range(publicDNSServers)
       /\ Tried(c) = SubSeq(servers[c], 1, Len(att[c]))

\* C11: in every state the attempts of a call are at most
\* len(publicDNSServers) and follow a permutation of the resolver list (each
\* resolver at most once), and under fair scheduling every call that has
\* entered its loop returns.
C11_TerminatesWithinList ==
  /\ [](\A c \in Callers : AttemptsFollowPermutation(c))
  /\ \A c \in Callers : (lpc[c] = "loop") ~> (lpc[c] = "ret")

\* A call has returned a failure after trying all the resolvers, in an order
\* other than that of the list.
C11_Witness ==
  \E c \in Callers :
    /\ lpc[c] = "ret"
    /\ ~lret[c].ok
    /\ Len(att[c]) = Len(publicDNSServers)
    /\ servers[c] # publicDNSServers

\* C12: a call returns success exactly when an attempt got at least one
\* address; that attempt is then the last one made, every attempt before it
\* got an error or no address, the addresses returned are those of that
\* answer, and processDomain uses the first of them. A call returns failure
\* only after every resolver was tried and none gave an address. The return
\* is that of lookupIPWithRetry as the pipeline computes it.
C12_SucceedsAtFirstAnswer ==
  \A c \in Callers :
    /\ \A k \in 1..(Len(att[c]) - 1) : ~Good(c, k)
    /\ lpc[c] = "loop" => \A k \in 1..Len(att[c]) : ~Good(c, k)
    /\ lpc[c] = "ret" =>
         LET n == Len(att[c])
             pure == lookupIPWithRetry(servers[c], RespOf(c))
         IN /\ n >= 1
            /\ lret[c].ok <=> Good(c, n)
            /\ lret[c].ok =>
                 /\ lret[c].ips = att[c][n].resp.ips
                 /\ lret[c].err = nilErr
                 /\ \A r \in processDomain(cdnMapFile, 1, [ok |-> TRUE, ips |-> lret[c].ips]) :
                      r.err = nilErr => r.resources.IP = String(att[c][n].resp.ips[1])
            /\ ~lret[c].ok =>
                 /\ Range(Tried(c)) = Range(publicDNSServers)
                 /\ lret[c].ips = <<>>
            /\ pure.ok = lret[c].ok
            /\ pure.ips = lret[c].ips
            /\ pure.tried = Tried(c)
            /\ pure.lastErr = lastErr[c]

\* A call has succeeded at its third resolver, with an answer of two
\* addresses, after one resolver failed and another returned no address.
C12_Witness ==
  \E c \in Callers :
    /\ lpc[c] = "ret"
    /\ lret[c].ok
    /\ Len(att[c]) = 3
    /\ att[c][1].resp.err
    /\ ~att[c][2].resp.err /\ att[c][2].resp.ips = <<>>
    /\ Len(lret[c].ips) = 2

\* C13 (as stated): every unsuccessful attempt records an error, so lastErr
\* is that of the last attempt made, and a call that fails returns the error
\* of its last attempt.
C13_FailsWithLastAttemptsError ==
  \A c \in Callers :
    /\ (lpc[c] = "loop" /\ Len(att[c]) > 0) => lastErr[c] = att[c][Len(att[c])].server
    /\ (lpc[c] = "ret" /\ ~lret[c].ok) => lret[c].err = att[c][Len(att[c])].server

\* C14: the shared list is the list of the source in every state, whatever
\* calls have been made or are in progress.
C14_SharedListUnchanged == serverList = publicDNSServers

\* Two calls are in progress at once, each with its own order, neither that
\* of the list, and both have made an attempt.
C14_Witness ==
  /\ \A c \in Callers : lpc[c] = "loop" /\ Len(att[c]) >= 1 /\ servers[c] # publicDNSServers
  /\ servers["w1"] # servers["w2"]
  /\ serverList = publicDNSServers

-----------------------------------------------------------------------------
(* Properties of the classification *)

\* The address a well-formed text names, as a number.
Val(t) == t[1] * 2 + t[2]

\* Range r is well-formed and address text ip lies in it, ends included.
Contains(r, ip) ==
  /\ ip \in ValidText /\ r.Start \in ValidText /\ r.End \in ValidText
  /\ Val(r.Start) <= Val(ip) /\ Val(ip) <= Val(r.End)

\* The CDNs of the table with a range that contains ip.
Owners(ip) == { c \in DOMAIN cdnIPMap : \E i \in 1..Len(cdnIPMap[c]) : Contains(cdnIPMap[c][i], ip) }

\* The range the last call of isIPInRange was about.
TestedRange == cdnIPMap[qhit.cdn][qhit.idx]

\* C15: a call of getCDNForIP returns either a CDN of the table that has a
\* range containing the address, with no error, or "unknown" with noCDN; it
\* returns "unknown" exactly when no range of any CDN contains the address.
C15_ReturnsOwnerOrUnknown ==
  qret # NoResult =>
    /\ qret.err \in { nilErr, noCDN }
    /\ qret.err = nilErr => qret.cdn \in Owners(qip)
    /\ qret.err = noCDN => qret.cdn = "unknown"
    /\ qret.err = noCDN <=> Owners(qip) = {}

\* A call has returned OtherCDN for an address that only the second range of
\* OtherCDN contains.
C15_Witness ==
  /\ qret = [cdn |-> "OtherCDN", err |-> nilErr]
  /\ Len(cdnIPMap["OtherCDN"]) = 2
  /\ ~Contains(cdnIPMap["OtherCDN"][1], qip)
  /\ Contains(cdnIPMap["OtherCDN"][2], qip)
  /\ Owners(qip) = { "OtherCDN" }

\* C16: for well-formed ip, start and end, isIPInRange is true exactly when
\* start <= ip <= end as numbers: both ends belong to the range.
C16_InclusiveBothEnds ==
  (qhit # NoHit /\ qip \in ValidText /\ TestedRange.Start \in ValidText
                /\ TestedRange.End \in ValidText) =>
    (qhit.hit <=> (Val(TestedRange.Start) <= Val(qip) /\ Val(qip) <= Val(TestedRange.End)))

\* The address tested is the end of a range of more than one address, and
\* the test said yes.
C16_Witness ==
  /\ qhit # NoHit
  /\ qhit.hit
  /\ TestedRange.Start # TestedRange.End
  /\ qip = TestedRange.End

\* C17: isIPInRange is false whenever the address, the start or the end is
\* unparseable; getCDNForIP returns "unknown" for an unparseable address, and
\* finds a CDN whenever a well-formed range of the table contains the
\* address, whatever malformed ranges the table holds and wherever.
C17_MalformedNeverMatches ==
  /\ (qhit # NoHit /\ (qip \notin ValidText \/ TestedRange.Start \notin ValidText
                        \/ TestedRange.End \notin ValidText)) => ~qhit.hit
  /\ (qret # NoResult /\ qip \notin ValidText) => qret.err = noCDN
  /\ (qret # NoResult /\ Owners(qip) # {}) => qret.err = nilErr
  /\ (qret # NoResult /\ qret.err = nilErr) =>
       \E i \in 1..Len(cdnIPMap[qret.cdn]) :
         /\ cdnIPMap[qret.cdn][i].Start \in ValidText
         /\ cdnIPMap[qret.cdn][i].End \in ValidText

\* A call has found OtherCDN by its second range although its first range
\* has an unparseable start and a well-formed end.
C17_Witness ==
  /\ qret = [cdn |-> "OtherCDN", err |-> nilErr]
  /\ Len(cdnIPMap["OtherCDN"]) = 2
  /\ cdnIPMap["OtherCDN"][1].Start \notin ValidText
  /\ cdnIPMap["OtherCDN"][1].End \in ValidText
  /\ Contains(cdnIPMap["OtherCDN"][2], qip)

\* C18 (as stated): a call of getCDNForIP for the address of the call before
\* it returns what that call returned.
C18_SameAnswerEveryCall ==
  [][(qret # NoResult /\ qret' # NoResult /\ qip' = qip) => qret' = qret]_vars

-----------------------------------------------------------------------------
(* Properties of the progress state *)

\* The domains whose result the aggregator has received, by outcome.
Received == { d \in 1..MaxLines : drained[d] > 0 }
Successes == Cardinality({ d \in Received : Attributed(d) })
Failures == Cardinality({ d \in Received : ~answered[d].ok })
Unknowns == Cardinality({ d \in Received : Resolved(d) /\ ~Attributed(d) })

\* C19 (as stated): while the aggregator drains and when it has ended,
\* processedCount is the number of results it has received, whatever their
\* outcomes.
C19_CountsEveryResult ==
  pc \in { "drain", "done" } => processedCount = DrainedTotal

\* C20 (as stated): when a run over rows of the form rank,domain ends, the
\* successes, the resolution failures and the unknown-CDN outcomes add up
\* to processedCount, and processedCount is the number of input rows.
C20_FinalCountsAddUp ==
  (pc = "done" /\ \A i \in 1..Len(input) : ValidLine(i)) =>
    /\ Successes + Failures + Unknowns = processedCount
    /\ processedCount = Len(input)

-----------------------------------------------------------------------------
(* Properties of the progress lines *)

\* The progress lines of the log.
ProgressLines == SelectSeq(logged, LAMBDA l : l.kind = "progress")

\* C21 (as stated): at every moment of the result loop the number of
\* progress lines emitted is the number of multiples of 10 that the count of
\* handled results has reached: one line per 10 completions, none between.
C21_OneLinePerTenCompletions ==
  pc \in { "drain", "done" } => Len(ProgressLines) = DrainedTotal \div 10

\* C22 (as stated): whenever a progress line is emitted, its ETA is the
\* average duration times its remaining count, and its remaining count is
\* the number of input domains not yet drained (the result in hand counted
\* as drained or not), never negative.
C22_EtaFromRemaining ==
  [][Len(ProgressLines') > Len(ProgressLines) =>
       LET line == ProgressLines'[Len(ProgressLines')] IN
         /\ line.remaining >= 0
         /\ line.remaining \in { totalDomains - DrainedTotal', totalDomains - DrainedTotal }
         /\ line.eta = (SumSeq(processingTimes') \div Len(processingTimes')) * line.remaining]_vars

\* make([]time.Duration, 0, 10): the capacity the window is allocated with.
windowCap == 10

\* C23 (as stated): the window of durations never holds more than 10.
C23_WindowBounded == Len(processingTimes) <= windowCap

-----------------------------------------------------------------------------
(* Properties of the count pass, the sink and the header *)

\* The jobs the producer has enqueued, and the lines it has skipped.
Enqueued == Cardinality({ i \in 1..scanPos : ValidLine(i) }) - (IF ppc = "send" THEN 1 ELSE 0)
Skipped == Cardinality({ i \in 1..scanPos : ~ValidLine(i) })

LostRows == { d \in 1..MaxLines : drained[d] > 0 /\ Attributed(d) /\ RowsOf(d) = {} }

\* C26 (as stated): when a run in which the sink failed ends, the process
\* has exited normally with every result drained, the one row whose write
\* failed is the only row missing (every later result was written), and the
\* failure was logged for it.
C26_WriteFailureIsLocal ==
  pc = "done" =>
    /\ exitCode = 0
    /\ \A i \in 1..MaxLines : drained[i] = IF ValidLine(i) THEN 1 ELSE 0
    /\ Cardinality(LostRows) <= 1
    /\ \A d \in LostRows :
         \E k \in 1..Len(logged) : logged[k].kind = "writeError" /\ logged[k].domain = d

\* The records written so far: those in the file and those in the buffer.
Written == outFile \o wbuf

\* C27: once main() is past the header write, and so whenever a worker
\* exists or a result has been produced, the records written are the header
\* followed by data rows only: each later record has exactly three fields,
\* a CDN of the table, a domain of the input and the text of an address,
\* and none is the header again.
C27_HeaderOnceThenRows ==
  (pc \in AfterHeader \/ PoolWorkers > 0 \/ results # <<>>) =>
    /\ Len(Written) >= 1
    /\ Written[1] = Header
    /\ \A k \in 2..Len(Written) :
         /\ Len(Written[k]) = 3
         /\ Written[k][1] \in DOMAIN cdnMapFile
         /\ ValidLine(Written[k][2])
         /\ Written[k][3] \in ValidText

\* The run has ended and the file is the header and two data rows.
C27_Witness ==
  /\ pc = "done"
  /\ Len(outFile) = 3
  /\ outFile[1] = Header
  /\ wbuf = <<>>

\* The elements of a sequence.
RangeSet(q) == { q[k] : k \in 1..Len(q) }

\* resolve after a fatal error of its setup: exit status 1, no worker started
\* and no domain resolved.
ResolveAbortsBeforeWork ==
  pc = "fatal" =>
    /\ exitCode = 1
    /\ PoolWorkers = 0
    /\ \A d \in 1..MaxLines : answered[d] = NoAnswer

\* C25 (as stated): a builder that aborts because the input cannot be opened,
\* is empty or has the wrong header exits with status 1 and has, until
\* then, neither contacted the range source nor loaded an ip2asn entry, and
\* no output is written.
C25_SetupFailureBeforeWork ==
  [][(bpc \in { "open", "header" } /\ bpc' = "fatal") =>
       /\ bexit' = 1
       /\ ~contacted
       /\ asnEntries = <<>>
       /\ outDisk' = outDisk]_vars

\* The CDN names of the records of the input.
CdnNames == { TrimQuotes(csvIn.rows[i][1]) : i \in 1..Len(csvIn.rows) }

\* C28 (as stated): the keys of the table a build has written are the CDN
\* names of the records of the input, those without an ASN and those whose
\* ASNs all have no range included.
C28_KeysAreCdnNames ==
  bpc = "done" => DOMAIN outDisk[outputFile].table = CdnNames

\* Two tables with the same keys and, for each key, the same set of ranges.
Equivalent(a, b) ==
  /\ DOMAIN a = DOMAIN b
  /\ \A c \in DOMAIN a : RangeSet(a[c]) = RangeSet(b[c])

StartsWith(q, p) == Len(p) <= Len(q) /\ SubSeq(q, 1, Len(p)) = p

\* The ranges the ip2asn entries in memory give the ASN.
RangesOfASN(asn) ==
  { [Start |-> e.RangeStart, End |-> e.RangeEnd] :
      e \in { x \in RangeSet(asnEntries) : x.ASNumber = TrimPrefixAS(asn) } }

\* C30: the iteration over a record that the reader accepts never ends the
\* build, whether or not a lookup of one of its ASNs fails: the loop goes
\* on to the next record, every key keeps the ranges it had (those of the
\* record's CDN as the start of its new ranges, those of any other CDN
\* unchanged), and the ranges of every ASN of the record that has some are
\* with the CDN's afterwards. The build is fatal in the loop only at a
\* record the reader rejects or when the output cannot be written.
C30_FailedLookupSkipped ==
  [][(bpc = "rows" /\ rowPos < Len(csvIn.rows)) =>
       LET record == csvIn.rows[rowPos + 1] IN
         IF record = BadRecord THEN bpc' = "fatal"
         ELSE LET cdnName == TrimQuotes(record[1])
                  asns == AsnsOf(record, 2)
              IN /\ bpc' = "rows"
                 /\ rowPos' = rowPos + 1
                 /\ \A c \in DOMAIN builtMap :
                      /\ c \in DOMAIN builtMap'
                      /\ StartsWith(builtMap'[c], builtMap[c])
                      /\ c # cdnName => builtMap'[c] = builtMap[c]
                 /\ \A k \in 1..Len(asns) :
                      RangesOfASN(asns[k]) # {} =>
                        /\ cdnName \in DOMAIN builtMap'
                        /\ RangesOfASN(asns[k]) \subseteq RangeSet(builtMap'[cdnName])]_vars

\* A build has written its table after a record whose first ASN has no
\* range and whose second has: the ranges of the second are in the table,
\* and so are those of the record after it.
C30_Witness ==
  /\ bpc = "done"
  /\ bexit = 0
  /\ Len(csvIn.rows) = 2
  /\ \E c \in { "A", "B" } :
       /\ csvIn.rows[1] = <<c, <<11, Comma, 2>>>>
       /\ RangesOfASN(11) = {}
       /\ RangesOfASN(2) # {}
       /\ c \in DOMAIN outDisk[outputFile].table
       /\ RangesOfASN(2) \subseteq RangeSet(outDisk[outputFile].table[c])
  /\ Len(csvIn.rows[2]) = 2
  /\ TrimQuotes(csvIn.rows[2][1]) \in DOMAIN outDisk[outputFile].table

\* C32 (as stated): whenever the builder looks up ASNs, and when it has written
\* its table, the entries in memory are the whole table of the source,
\* loaded once: no lookup runs against a part of the table.
C32_QueriesOnCompleteTable ==
  bpc \in { "rows", "done" } => asnEntries = asnSource

\* The number of ip2asn entries in memory of the ASN.
EntriesOfASN(asnNumber) ==
  Cardinality({ k \in 1..Len(asnEntries) : asnEntries[k].ASNumber = asnNumber })

\* C34 (as stated): the iteration over a record adds to its CDN the ranges of
\* each distinct ASN of the record once, an ASN being what is left of a
\* piece of the field without the prefix AS: the CDN's ranges grow by the
\* number of entries of the distinct ASNs.
C34_EachASNOnce ==
  [][(bpc = "rows" /\ rowPos < Len(csvIn.rows) /\ csvIn.rows[rowPos + 1] # BadRecord) =>
       LET record == csvIn.rows[rowPos + 1]
           cdnName == TrimQuotes(record[1])
           asns == AsnsOf(record, 2)
           distinct == { TrimPrefixAS(asns[k]) : k \in 1..Len(asns) }
           before == IF cdnName \in DOMAIN builtMap THEN Len(builtMap[cdnName]) ELSE 0
           after == IF cdnName \in DOMAIN builtMap' THEN Len(builtMap'[cdnName]) ELSE 0
       IN after - before = SumOver([a \in distinct |-> EntriesOfASN(a)], distinct)]_vars

\* C35: results is closed by the one step of the closer, and stays closed;
\* whenever it is closed, jobs is closed and every worker has returned, so
\* that no worker waits for a job or holds one whose result it would send;
\* and whenever jobs is closed the producer has ended and holds no job to
\* send.
C35_ClosedAfterWorkersReturn ==
  /\ [](resultsClosed =>
         /\ cpc = "done"
         /\ jobsClosed
         /\ exited = poolSize
         /\ idle = 0
         /\ busy = EmptyBag)
  /\ [](cpc = "done" => resultsClosed)
  /\ [](jobsClosed => (ppc = "done" /\ pjob = NoJob))
  /\ [][(resultsClosed => resultsClosed') /\ (cpc = "done" => cpc' = "done")
         /\ (jobsClosed => jobsClosed')]_vars

\* results is closed after three results went through it.
C35_Witness ==
  /\ resultsClosed
  /\ jobsClosed
  /\ DrainedTotal + Len(results) = MaxLines

\* The bulk-table variant past its first check: its output path holds no
\* table, and a table on disk is never written again.
BulkRefusesExistingOutput ==
  /\ [](bpc \in { "tsv", "load", "open", "header", "rows" } => ~outDisk[outputFile].exists)
  /\ [][\A p \in Paths : outDisk[p].exists => outDisk'[p] = outDisk[p]]_vars

\* C31 (as stated): no run of the builder gets as far as reading its input or
\* looking up ASNs while its output path holds a table: it has ended with
\* a fatal error before.
C31_ExistingOutputRefused ==
  bpc \in { "tsv", "load", "header", "rows" } => ~outDisk[outputFile].exists

\* The number of addresses, two bits each, of a prefix of the given length.
addrBits == 2
PrefixSize(length) == 2 ^ (addrBits - length)

\* C33 (as stated): every range of the table is the range of a netblock the
\* service announces: its start is the netblock's address and its end the
\* last address of the prefix, start + 2^(bits - length) - 1.
C33_RangeCoversPrefix ==
  \A c \in DOMAIN builtMap : \A k \in 1..Len(builtMap[c]) :
    \E e \in RangeSet(asnSource) :
      LET parts == SplitNetblock(e.Netblock) IN
        /\ Len(parts) = 2
        /\ builtMap[c][k].Start = parts[1]
        /\ builtMap[c][k].End \in ValidText
        /\ Val(builtMap[c][k].End) = Val(parts[1]) + PrefixSize(parts[2][1]) - 1

\* The test runner with one worker or more: when it has ended every test
\* case was executed once and the two counters add up to the total.
RunnerCountsWithWorkers ==
  (tpc = "done" /\ numWorkers >= 1) =>
    /\ \A i \in 1..Len(testCases) : executed[i] = 1
    /\ successCount + failureCount = Len(testCases)

\* C36 (as stated): when the test runner has ended, whatever the value of
\* -workers, every test case was executed exactly once and successCount +
\* failureCount is the number of test cases loaded.
C36_EveryCaseOneResult ==
  tpc = "done" =>
    /\ \A i \in 1..Len(testCases) : executed[i] = 1
    /\ successCount + failureCount = Len(testCases)

\* The indices of the original bucket of cdn that a test case has used.
UsedIn(cdn) ==
  UNION { { pairedIdx[k][2], pairedIdx[k][3] } :
            k \in { n \in 1..Len(pairedIdx) : pairedIdx[n][1] = cdn } }

\* The number of test cases of cdn.
CasesOf(cdn) == Cardinality({ n \in 1..Len(pairedIdx) : pairedIdx[n][1] = cdn })

\* C37: every test case is made of two different records of the original
\* bucket of its CDN, its target and its front, whose visited domains
\* differ; no record of a bucket is in two test cases; and the bucket kept
\* for a CDN the loop has left is the original bucket without the records
\* used, so that twice its test cases and its length add up to the length
\* of the original bucket.
C37_RecordsUsedOnce ==
  /\ Len(pairedIdx) = Len(genCases)
  /\ \A k \in 1..Len(genCases) :
       LET cdn == pairedIdx[k][1]
           i == pairedIdx[k][2]
           j == pairedIdx[k][3]
       IN /\ cdn \in DOMAIN origBuckets
          /\ i \in 1..Len(origBuckets[cdn])
          /\ j \in 1..Len(origBuckets[cdn])
          /\ i # j
          /\ origBuckets[cdn][i].CDN = cdn
          /\ origBuckets[cdn][j].CDN = cdn
          /\ genCases[k].CDN = cdn
          /\ genCases[k].TargetDomain = origBuckets[cdn][i].VisitedDomain
          /\ genCases[k].FrontDomain = origBuckets[cdn][j].VisitedDomain
          /\ genCases[k].TargetDomain # genCases[k].FrontDomain
  /\ \A k, l \in 1..Len(pairedIdx) :
       (k # l /\ pairedIdx[k][1] = pairedIdx[l][1]) =>
         { pairedIdx[k][2], pairedIdx[k][3] } \cap { pairedIdx[l][2], pairedIdx[l][3] } = {}
  /\ \A cdn \in gdone :
       /\ cdnBuckets[cdn] = newBucket(origBuckets[cdn], 1, UsedIn(cdn))
       /\ 2 * CasesOf(cdn) + Len(cdnBuckets[cdn]) = Len(origBuckets[cdn])

\* Generation has ended with two test cases of one CDN, no record of its
\* bucket left.
C37_Witness ==
  /\ gpc = "done"
  /\ \E cdn \in DOMAIN origBuckets :
       /\ CasesOf(cdn) = 2
       /\ Len(origBuckets[cdn]) = 4
       /\ cdnBuckets[cdn] = <<>>

\* C38: no two test cases have the same target and front domain, in this
\* order, whatever their CDNs, and there are as many test cases as domain
\* pairs recorded.
C38_DomainPairsUnique ==
  /\ \A k, l \in 1..Len(genCases) :
       k # l => <<genCases[k].TargetDomain, genCases[k].FrontDomain>> #
                  <<genCases[l].TargetDomain, genCases[l].FrontDomain>>
  /\ Len(genCases) = Cardinality(domainPairMap)

\* Generation has ended with a test case of each of the two CDNs, made
\* of records with the same two visited domains.
C38_Witness ==
  /\ gpc = "done"
  /\ \E k, l \in 1..Len(genCases) :
       /\ genCases[k].CDN = "A"
       /\ genCases[l].CDN = "B"
       /\ { genCases[k].TargetDomain, genCases[k].FrontDomain } =
            { genCases[l].TargetDomain, genCases[l].FrontDomain }

\* The records of the lines of the current answer, the empty lines apart.
AnswerRecords ==
  LET q == SelectSeq(cdxResponse.lines, LAMBDA l : l.text = "json")
  IN [k \in 1..Len(q) |-> q[k].index[1]]

\* C39 (as stated): a call whose query was answered with status 200 and with
\* lines that all decode, one record at least and no record with a
\* redirect, returns the first record and no error.
C39_FirstIndexReturned ==
  ( /\ crawlRet.returned
    /\ latestCollectionInfo # "nil"
    /\ cdxResponse.fetch = "ok"
    /\ \A k \in 1..Len(cdxResponse.lines) : cdxResponse.lines[k].text # "bad"
    /\ Len(AnswerRecords) >= 1
    /\ \A k \in 1..Len(AnswerRecords) : AnswerRecords[k].Redirect = "" ) =>
    /\ crawlRet.err = "nil"
    /\ crawlRet.index = <<AnswerRecords[1]>>

====
